---- MODULE Spec2Model ----
(***************************************************************************)
(* Model of the rocket flight simulator (RocketPhysics): the fin structural *)
(* functions, the wind profile and the fixed-step flight integrator         *)
(* calculateFlightPath.                                                     *)
(*                                                                          *)
(* Numbers.  The program computes in IEEE-754 doubles.  The model keeps     *)
(*   - the loop clock exactly: `time` is the double reached by adding the   *)
(*     double 0.02 i times, held as the pair (step count i, rounding error  *)
(*     e) with time = (i*Mc + e) * 2^-58, Mc = 0x147AE147AE147B the         *)
(*     significand of the double 0.02;                                      *)
(*   - every other quantity in integer fixed point (unit given at each      *)
(*     definition), rounding toward the nearest unit;                       *)
(*   - NaN and the infinities, where the code can produce them, as the      *)
(*     classes "nan" / "inf" of a tagged record.                            *)
(***************************************************************************)
EXTENDS Integers, Sequences, FiniteSets, TLC

(***************************************************************************)
(* Integer helpers                                                          *)
(***************************************************************************)
Abs(a) == IF a < 0 THEN -a ELSE a

Sign(a) == IF a > 0 THEN 1 ELSE IF a < 0 THEN -1 ELSE 0

Min(a, b) == IF a < b THEN a ELSE b

Max(a, b) == IF a > b THEN a ELSE b

\* a / b rounded to the nearest integer (b > 0), halves away from zero
Rdiv(a, b) == IF a >= 0 THEN (a + b \div 2) \div b ELSE -((-a + b \div 2) \div b)

\* JavaScript's % : the result has the sign of the dividend
JsMod(a, b) == IF a >= 0 THEN a % b ELSE -((-a) % b)

\* the number of bits of n >= 1
Bits(n) == CHOOSE k \in 1..31 : n \div 2^(k - 1) = 1

\* one Newton step toward sqrt(n)
SqrtStep(n, x) == (x + n \div x) \div 2

\* floor(sqrt(n)) for 0 <= n < 2^31: Newton's iteration from a power of two
\* that is at least the root
Isqrt(n) ==
  IF n < 2 THEN n
  ELSE LET x0 == 2^((Bits(n) + 1) \div 2)
           x1 == SqrtStep(n, x0)
           x2 == SqrtStep(n, x1)
           x3 == SqrtStep(n, x2)
           x4 == SqrtStep(n, x3)
           x5 == SqrtStep(n, x4)
           x6 == SqrtStep(n, x5)
       IN IF x6 > n \div x6 THEN x6 - 1 ELSE x6

\* saturation value of MulDiv: far above every clamp of the program
Saturation == 500000000

\* base of the digits of a double-width product
Base == 2^15

\* a * b as four digits of base 2^15, most significant first; 0 <= a, b < 2^30
MulDigits(a, b) ==
  LET a1 == a \div Base
      a0 == a % Base
      b1 == b \div Base
      b0 == b % Base
      P0 == a0 * b0
      s1 == a1 * b0 + a0 * b1 + P0 \div Base
      s2 == a1 * b1 + s1 \div Base
  IN <<s2 \div Base, s2 % Base, s1 % Base, P0 % Base>>

\* the digits of floor(D / c), 0 < c <= 2^16
DivDigits(D, c) ==
  LET t3 == D[1]
      t2 == (t3 % c) * Base + D[2]
      t1 == (t2 % c) * Base + D[3]
      t0 == (t1 % c) * Base + D[4]
  IN <<t3 \div c, t2 \div c, t1 \div c, t0 \div c>>

\* the digits of floor(D / 2^k), 0 <= k <= 15
ShiftDigits(D, k) ==
  LET lo == 2^k
      hi == 2^(15 - k)
  IN <<D[1] \div lo,
       D[2] \div lo + (D[1] % lo) * hi,
       D[3] \div lo + (D[2] % lo) * hi,
       D[4] \div lo + (D[3] % lo) * hi>>

\* the value of the digits D, saturating
DigitsValue(D) ==
  IF D[1] > 0 \/ D[2] > 0 \/ D[3] > Saturation \div Base THEN Saturation
  ELSE Min(D[3] * Base + D[4], Saturation)

\* floor(a*b/c), saturating; 0 <= a, b < 2^30, 0 < c < 2^30.  Exact for
\* c <= 2^16 and for c = 10000 * c2 with c2 <= 2^16; for the other c the
\* divisor is cut to its 16 leading bits (relative error below 2^-15)
MulDiv(a, b, c) ==
  LET D == MulDigits(a, b)
  IN IF c <= 2 * Base THEN DigitsValue(DivDigits(D, c))
     ELSE IF c % 10000 = 0 /\ c \div 10000 <= 2 * Base
          THEN DigitsValue(DivDigits(DivDigits(D, 10000), c \div 10000))
          ELSE LET k == Bits(c) - 16
               IN DigitsValue(DivDigits(ShiftDigits(D, k), c \div 2^k))


\* a*b/c truncated toward zero, for signed a and b
SMulDiv(a, b, c) == Sign(a) * Sign(b) * MulDiv(Abs(a), Abs(b), c)

\* Math.sqrt(a * a + b * b)
Hypot(a, b) ==
  LET m == Max(Abs(a), Abs(b))
      k == IF m < Base THEN 1 ELSE 2^(Bits(m) - 15)
  IN Isqrt((Abs(a) \div k) * (Abs(a) \div k) + (Abs(b) \div k) * (Abs(b) \div k)) * k

(***************************************************************************)
(* Angles are held in units of 10^-5 rad; sines and cosines in units of     *)
(* 10^-4.                                                                   *)
(***************************************************************************)
PI == 314159

\* reduce an angle to [-PI, PI]
WrapPi(x) ==
  LET m == x % (2 * PI)
  IN IF m > PI THEN m - 2 * PI ELSE m

\* sin of y, y in 10^-4 rad and |y| <= pi/2, by its Taylor series to y^9
SinSeries(y) ==
  LET y2 == (y * y) \div 10000
      t3 == (y * y2) \div 60000
      t5 == (t3 * y2) \div 200000
      t7 == (t5 * y2) \div 420000
      t9 == (t7 * y2) \div 720000
  IN y - t3 + t5 - t7 + t9

\* Math.sin
Sin(x) ==
  LET w == WrapPi(x)
      r == IF w > PI \div 2 THEN PI - w ELSE IF w < -(PI \div 2) THEN -PI - w ELSE w
      y == Rdiv(Abs(r), 10)
  IN Sign(r) * SinSeries(y)

\* Math.cos
Cos(x) == Sin(x + PI \div 2)

\* atan(z/10000) for 0 <= z <= 10000, in 10^-5 rad:
\* z*pi/4 + z(1-z)(0.2447 + 0.0663 z), accurate to about 2*10^-4 rad
AtanUnit(z) ==
  LET lin == (z * 7854) \div 1000
      quad == (z * (10000 - z)) \div 10000
      coef == 2447 + (663 * z) \div 10000
  IN lin + (quad * coef) \div 1000

\* Math.atan2(a, b): the angle of the vector (b, a) from the b axis
Atan2(a, b) ==
  IF a = 0 /\ b = 0 THEN 0
  ELSE LET aa == Abs(a)
           ab == Abs(b)
           base == IF aa <= ab THEN AtanUnit(MulDiv(aa, 10000, ab))
                   ELSE PI \div 2 - AtanUnit(MulDiv(ab, 10000, aa))
           half == IF b >= 0 THEN base ELSE PI - base
       IN IF a >= 0 THEN half ELSE -half

(***************************************************************************)
(* Doubles that may be NaN or infinite: a record [k, v] with k = "fin" and  *)
(* v the fixed-point value, k = "inf" and v = +1 or -1, or k = "nan".       *)
(* The operators follow IEEE-754 on the special values.                     *)
(***************************************************************************)
XFin(n) == [k |-> "fin", v |-> n]

XNaN == [k |-> "nan", v |-> 0]

XInf(s) == [k |-> "inf", v |-> s]

\* the sign of a double; a zero counts as +0
XSign(x) == IF x.v < 0 THEN -1 ELSE 1

\* x * y / den (den > 0 rescales the fixed point)
XMul(x, y, den) ==
  IF x.k = "nan" \/ y.k = "nan" THEN XNaN
  ELSE IF x.k = "inf" \/ y.k = "inf"
       THEN IF x.v = 0 \/ y.v = 0 THEN XNaN ELSE XInf(Sign(x.v) * Sign(y.v))
       ELSE XFin(SMulDiv(x.v, y.v, den))

\* x * num / y (num > 0 rescales the fixed point)
XDiv(x, y, num) ==
  IF x.k = "nan" \/ y.k = "nan" THEN XNaN
  ELSE IF x.k = "inf"
       THEN IF y.k = "inf" THEN XNaN ELSE XInf(x.v * XSign(y))
       ELSE IF y.k = "inf" THEN XFin(0)
            ELSE IF y.v = 0
                 THEN IF x.v = 0 THEN XNaN ELSE XInf(Sign(x.v))
                 ELSE XFin(Sign(x.v) * Sign(y.v) * MulDiv(Abs(x.v), num, Abs(y.v)))

XAdd(x, y) ==
  IF x.k = "nan" \/ y.k = "nan" THEN XNaN
  ELSE IF x.k = "inf"
       THEN IF y.k = "inf" /\ y.v # x.v THEN XNaN ELSE x
       ELSE IF y.k = "inf" THEN y ELSE XFin(x.v + y.v)

\* Math.pow(x, 0.5) of x * mul
XSqrt(x, mul) ==
  IF x.k = "nan" THEN XNaN
  ELSE IF x.k = "inf" THEN XInf(1)
       ELSE IF x.v < 0 THEN XNaN ELSE XFin(Isqrt(x.v * mul))

\* Math.atan of x, x in units of 10^-3
XAtan(x) ==
  IF x.k = "nan" THEN XNaN
  ELSE IF x.k = "inf" THEN XFin(x.v * (PI \div 2))
       ELSE XFin(Atan2(x.v, 1000))

XCos(x) == IF x.k = "fin" THEN XFin(Cos(x.v)) ELSE XNaN

XSin(x) == IF x.k = "fin" THEN XFin(Sin(x.v)) ELSE XNaN

\* Math.min(x, c) and Math.max(c, x) for a finite c: NaN if x is NaN
MathMin(x, c) ==
  IF x.k = "nan" THEN XNaN
  ELSE IF x.k = "inf" THEN (IF x.v > 0 THEN XFin(c) ELSE x)
       ELSE XFin(Min(x.v, c))

MathMax(c, x) ==
  IF x.k = "nan" THEN XNaN
  ELSE IF x.k = "inf" THEN (IF x.v < 0 THEN XFin(c) ELSE x)
       ELSE XFin(Max(x.v, c))

\* Math.abs(x) < c, Math.abs(x) > c: false for NaN
XAbsLess(x, c) == x.k = "fin" /\ Abs(x.v) < c

XAbsGreater(x, c) == x.k = "inf" \/ (x.k = "fin" /\ Abs(x.v) > c)

XIsFinite(x) == x.k = "fin"

XNeg(x) == IF x.k = "nan" THEN XNaN ELSE [k |-> x.k, v |-> -x.v]

XSub(x, y) == XAdd(x, XNeg(y))

\* x * num / den for integers num and den > 0
XScale(x, num, den) == XMul(x, XFin(num), den)

\* Math.abs
XAbs(x) == IF x.k = "fin" THEN XFin(Abs(x.v)) ELSE IF x.k = "inf" THEN XInf(1) ELSE XNaN

\* x < y and x >= y: false when either is NaN
XLt(x, y) ==
  IF x.k = "nan" \/ y.k = "nan" THEN FALSE
  ELSE IF x.k = "inf" THEN x.v < 0 /\ ~(y.k = "inf" /\ y.v < 0)
       ELSE IF y.k = "inf" THEN y.v > 0 ELSE x.v < y.v

XGe(x, y) == x.k # "nan" /\ y.k # "nan" /\ ~XLt(x, y)

\* a product of doubles is non-zero exactly when every factor is (the
\* fixed point may round a small product to 0: it is kept at one unit)
XNonZero(x) == x.k = "inf" \/ (x.k = "fin" /\ x.v # 0)

XKeepPositive(mag, nonZero) ==
  IF mag.k = "fin" /\ mag.v = 0 /\ nonZero THEN XFin(1) ELSE mag

\* the value undefined (a missing property, a missing argument)
Undefined == [k |-> "undefined", v |-> 0]

\* the outcome of a call that throws a TypeError to its caller
Throw == [k |-> "throw", v |-> 0]

\* table[key]: undefined when the table has no such key
Lookup(table, key) == IF key \in DOMAIN table THEN table[key] ELSE Undefined


(***************************************************************************)
(* Tables of RocketConstants (the module the simulator imports).            *)
(* Moduli in MPa; alpha in eighths; thrust in mN per 0.02 s sample.         *)
(***************************************************************************)
FIN_MATERIALS ==
  [balsa   |-> [E |-> 3000, G |-> 200],
   plywood |-> [E |-> 9000, G |-> 600]]

\* the power-law exponent alpha of each terrain profile, in eighths
WIND_PROFILES ==
  [uniform |-> [alpha |-> 0],
   open    |-> [alpha |-> 1],
   suburb  |-> [alpha |-> 2],
   urban   |-> [alpha |-> 3]]

(***************************************************************************)
(* calculateFinDivergenceSpeed: lengths of rocketParams in mm, result in    *)
(* mm/s.                                                                    *)
(***************************************************************************)
calculateFinDivergenceSpeed(rp) ==
  LET G == FIN_MATERIALS[rp.finMaterial].G
      \* meanChord, in 0.1 mm
      meanChord == XFin((rp.finBaseWidth + rp.finTipWidth) * 5)
      \* (finSweepLength + 0.5 tip - 0.5 base) * 3.14, in 0.1 mm
      sweepNum == XFin(((rp.finSweepLength * 10 + 5 * rp.finTipWidth
                         - 5 * rp.finBaseWidth) * 314) \div 100)
      sweepbackAngle == XAtan(XDiv(sweepNum, meanChord, 1000))
      \* J = 0.3333 * tip * thickness^3, in 10^-16 m^4
      J == XFin(3333 * rp.finTipWidth * rp.finThickness * rp.finThickness
                * rp.finThickness)
      \* (9 / 3.14) * cos(sweepbackAngle), in 10^-4
      liftCoefficient_fin == XMul(XFin(28662), XCos(sweepbackAngle), 10000)
      \* 2 * G * J, in 10^-9 N m^2
      twoGJ == XMul(XFin(2 * G), J, 10)
      \* rho * meanChord^2 * 0.25 * liftCoefficient_fin, in 10^-8
      chord2 == XMul(meanChord, meanChord, 1)
      denom == XMul(XMul(chord2, XFin(30625), 100000), liftCoefficient_fin, 10000)
      \* Math.pow(2GJ / denom, 0.5), in 10^-2
      root == XSqrt(XDiv(twoGJ, denom, 1000), 1)
      \* 3.14 / (2 * finHeight_m), in 10^-3 / m
      factor == XDiv(XFin(1570000), XFin(rp.finHeight), 1)
      divSpeed == XMul(factor, root, 100)
  IN MathMax(20000, MathMin(divSpeed, 300000))

(***************************************************************************)
(* calculateFinFlutterSpeed: result in mm/s.                                *)
(***************************************************************************)
calculateFinFlutterSpeed(rp) ==
  LET G == FIN_MATERIALS[rp.finMaterial].G
      E == FIN_MATERIALS[rp.finMaterial].E
      th == XFin(rp.finThickness * 10)                     \* 0.1 mm
      \* lengthOfCo, in 0.1 mm
      lengthOfCo ==
        XAdd(XMul(XDiv(XFin(rp.finBaseWidth - rp.finTipWidth), XFin(rp.finHeight), 1000),
                  XFin(rp.bodyWidth * 5 + rp.finHeight * 10), 1000),
             XFin(rp.finTipWidth * 10))
      finSpan_half == XFin(rp.finHeight * 10 + rp.bodyWidth * 5)
      chord_half == XMul(lengthOfCo, XFin(1), 2)
      cord_threequarter == XMul(lengthOfCo, XFin(3), 4)
      aspectRatio_FL == XDiv(finSpan_half, chord_half, 1000)      \* 10^-3
      taperRatio == XDiv(XFin(rp.finTipWidth * 10), lengthOfCo, 1000)
      \* polar moment c*t*(t^2 + c^2)/12, in 10^-14 m^4
      polarMomentOfArea_fin ==
        XMul(XMul(cord_threequarter, th, 1),
             XAdd(XMul(th, th, 1), XMul(cord_threequarter, cord_threequarter, 1)),
             1200)
      \* Ge = 6 * polar * G / (c * t^3), in MPa
      Ge == XDiv(XMul(XMul(XFin(6), polarMomentOfArea_fin, 1), XFin(G), 100),
                 XMul(cord_threequarter, XMul(XMul(th, th, 1), th, 1), 1), 10000)
      \* meanChord in 0.1 mm; factorA = 3.5 * t / meanChord^1.5
      meanChord == XFin((rp.finBaseWidth + rp.finTipWidth) * 5)
      factorA == XDiv(XMul(XFin(35), th, 1),
                      XMul(meanChord, XSqrt(meanChord, 1), 1), 1000)
      \* factorB = sqrt(G * E / (12 * rho * (1 - nu^2))): finite for every material
      factorB == XSqrt(XFin((G * E) \div 13), 1)
      \* (t / c)^3, in 10^-9
      ratio == XDiv(th, cord_threequarter, 10000)
      cube == XMul(XMul(ratio, ratio, 1000), ratio, 1)
      numer == XMul(XMul(cube, Ge, 1000), XFin(314), 100)
      ar3 == XMul(XMul(aspectRatio_FL, aspectRatio_FL, 1000), aspectRatio_FL, 1000)
      \* 12 * epsilon * 0.221 * 101325 = 67178
      denom == XMul(XMul(XDiv(ar3, XAdd(aspectRatio_FL, XFin(2000)), 1000),
                         XAdd(taperRatio, XFin(1000)), 1000),
                    XFin(67178), 1000)
      \* Math.pow(numer / denom, 0.5) * 343, in mm/s
      flutterSpeed == XMul(XSqrt(XDiv(numer, denom, 10000), 1), XFin(3430), 1)
  IN IF ~XIsFinite(factorA) \/ ~XIsFinite(factorB)
     THEN XFin(40000 + (rp.bodyHeight + rp.noseHeight) * 120)
     ELSE MathMax(30000, MathMin(flutterSpeed, 400000))


(***************************************************************************)
(* calculateFinDeflection: velocity a double in mm/s, E in MPa, finParams   *)
(* in mm; the returned number in units of 10^-3 (the ceiling 15 is 15000).  *)
(***************************************************************************)
\* taperRatio of both variants, in 10^-3: 0 unless finHeight > 0, within +-0.9
TaperRatio(fp) ==
  IF fp.finHeight > 0
  THEN Max(-900, Min(900, Rdiv((fp.finBaseWidth - fp.finTipWidth) * 1000, fp.finHeight)))
  ELSE 0

\* sweepAngle of both variants: atan(num * PI / finHeight)
SweepAngle(fp) ==
  XAtan(XDiv(XFin(((fp.finSweepLength * 10 + 5 * fp.finTipWidth
                    - 5 * fp.finBaseWidth) * 31416) \div 10000),
             XFin(fp.finHeight * 10), 1000))

\* the return statements of calculateFinDeflection: 15 for NaN and above the
\* ceiling, the raw value below 0.01, else max(0.01, |deflectionMm|)
FinDeflectionReturn(deflectionMm) ==
  IF deflectionMm.k = "nan" THEN XFin(15000)
  ELSE IF XAbsGreater(deflectionMm, 15000) THEN XFin(15000)
  ELSE IF XAbsLess(deflectionMm, 10) THEN deflectionMm
  ELSE XFin(Max(10, Abs(deflectionMm.v)))

calculateFinDeflection(velocity, material, finParams, angleChangePerDt2) ==
  \* const { E } = material, before the try block
  IF material = Undefined THEN Throw
  ELSE IF XAbsLess(velocity, 1) THEN XFin(0)
  ELSE
  LET E == material.E
      \* Number(finThickness) || 2.0
      safeFinThickness == IF finParams.finThickness = 0 THEN 2 ELSE finParams.finThickness
      safeVelocity == MathMin(velocity, 300000)
      \* finArea, in units of 0.5 mm^2
      finArea == XFin((finParams.finBaseWidth + finParams.finTipWidth) * finParams.finHeight)
      taperRatio == TaperRatio(finParams)
      sweepAngle == SweepAngle(finParams)
      \* I = meanChord * thickness^3 / 12, in 10^-15 m^4, floored at 10^-12 m^4
      I0 == ((finParams.finBaseWidth + finParams.finTipWidth) * safeFinThickness
             * safeFinThickness * safeFinThickness * 1000) \div 24
      I == IF I0 < 1000 THEN 1000 ELSE I0
      \* safeVelocity^2, in 0.01 m^2/s^2
      velocity2 == XMul(safeVelocity, safeVelocity, 10000)
      \* windForce = 0.5 * 1.225 * v^2 * 1.28 * finArea, in mN
      windForce == XMul(velocity2, XMul(finArea, XFin(392), 1), 100000000)
      \* unitLengthWindForce, in mN/m
      unitLengthWindForce == XDiv(windForce, XFin(Max(1, finParams.finHeight)), 1000)
      \* deflectionFactor = 1 / (1 - taperRatio), in 10^-1
      deflectionFactor == XFin(1000000 \div (1000 - taperRatio))
      h4 == XFin(finParams.finHeight * finParams.finHeight
                 * finParams.finHeight * finParams.finHeight)
      \* 8 * E * I, in 10^-7 N m^2
      EI8 == XFin(MulDiv(8 * E, I, 100))
      \* rawDeflection * 1000, in micrometres
      deflectionMm ==
        XDiv(XMul(XMul(XMul(unitLengthWindForce, h4, 10000000),
                       XCos(sweepAngle), 10000),
                  deflectionFactor, 10),
             EI8, 1000)
  IN FinDeflectionReturn(deflectionMm)

\* the return statements of the earlier variant: 15 for NaN and above the
\* ceiling, else the signed raw value
FinDeflectionReturn_v1(rawDeflection) ==
  IF rawDeflection.k = "nan" THEN XFin(15000)
  ELSE IF XAbsGreater(rawDeflection, 15000) THEN XFin(15000)
  ELSE rawDeflection

\* the earlier variant (RocketPhysics.jsx): the load follows sin(angle change)
\* and the value is returned signed; angleChangePerDt2 in 10^-5 rad
calculateFinDeflection_v1(velocity, material, finParams, angleChangePerDt2) ==
  IF material = Undefined THEN Throw
  ELSE IF XAbsLess(velocity, 1) THEN XFin(0)
  ELSE
  LET E == material.E
      safeFinThickness == IF finParams.finThickness = 0 THEN 2 ELSE finParams.finThickness
      safeVelocity == MathMin(velocity, 300000)
      safeAngleChange == MathMax(-50000, MathMin(angleChangePerDt2, 50000))
      finArea == XFin((finParams.finBaseWidth + finParams.finTipWidth) * finParams.finHeight)
      taperRatio == TaperRatio(finParams)
      sweepAngle == SweepAngle(finParams)
      \* I = tip * thickness^3 / 12 when both are positive, else 0; floored
      I0 == IF finParams.finTipWidth > 0 /\ safeFinThickness > 0
            THEN (finParams.finTipWidth * safeFinThickness * safeFinThickness
                  * safeFinThickness * 1000) \div 12
            ELSE 0
      I == IF I0 < 1000 THEN 1000 ELSE I0
      velocity2 == XMul(safeVelocity, safeVelocity, 10000)
      \* windForce = 9.81 * 0.05 * v^2 * sin(safeAngleChange) * finArea, in mN
      windForce == XMul(XMul(velocity2, XMul(finArea, XFin(245), 1), 100000000),
                        XSin(safeAngleChange), 10000)
      unitlengthWindForce == XDiv(windForce, XFin(Max(1, finParams.finHeight)), 1000)
      deflectionFactor == XFin(1000000 \div (1000 - taperRatio))
      h4 == XFin(finParams.finHeight * finParams.finHeight
                 * finParams.finHeight * finParams.finHeight)
      EI8 == XFin(MulDiv(8 * E, I, 100))
      \* rawDeflection (a length in m, returned as it is), in 10^-3 of its unit
      rawDeflection ==
        XDiv(XMul(XMul(XMul(unitlengthWindForce, h4, 10000000),
                       XCos(sweepAngle), 10000),
                  deflectionFactor, 10),
             EI8, 1)
  IN FinDeflectionReturn_v1(rawDeflection)

(***************************************************************************)
(* calculateWindSpeedAtHeight: baseWindSpeed in mm/s, height in mm, the     *)
(* profile a key of WIND_PROFILES or any other string.                      *)
(***************************************************************************)
\* Math.pow(height / 1.5, alpha), in 10^-3, alpha = a8 / 8
PowEighths(height, a8) ==
  LET s1 == Isqrt(Min(height, 2000000) * 1000)
      s2 == Isqrt(s1 * 40000)
      s3 == Isqrt(s2 * 40000)
      \* (height / 1500 mm)^(1/8), in 10^-3
      r == (s3 * 1000) \div 16731
  IN CASE a8 = 1 -> r
       [] a8 = 2 -> (r * r) \div 1000
       [] a8 = 3 -> (((r * r) \div 1000) * r) \div 1000
       [] OTHER -> 1000

\* variant of ActualMultiplier without the cap
ActualMultiplierUncapped(windSpeedMultiplier) == windSpeedMultiplier

\* Math.min(windSpeedMultiplier, maxMultiplier), maxMultiplier = 3.0
ActualMultiplier(windSpeedMultiplier) == Min(windSpeedMultiplier, 3000)

calculateWindSpeedAtHeight(baseWindSpeed, height, profile) ==
  IF height <= 0 THEN baseWindSpeed
  ELSE LET alpha == WIND_PROFILES[profile].alpha
       IN IF alpha = 0 THEN baseWindSpeed
          ELSE LET windSpeedMultiplier == PowEighths(height, alpha)
                   actualMultiplier == ActualMultiplier(windSpeedMultiplier)
               IN Sign(baseWindSpeed) * ((Abs(baseWindSpeed) * actualMultiplier) \div 1000)


(***************************************************************************)
(* Geometry of the rocket.  rocketParams holds lengths in mm.  Results:     *)
(* areas in units of 0.01 mm^2, volumes in mm^3, positions along the axis   *)
(* in micrometres, ratios in 10^-6; all as doubles that may be NaN or       *)
(* infinite for a degenerate geometry.                                      *)
(***************************************************************************)
\* the fields calculateProjectedArea requires to be of type 'number'
RequiredNumbers ==
  { "noseHeight", "bodyHeight", "bodyWidth", "finHeight", "finBaseWidth", "finTipWidth",
    "finThickness", "finSweepLength" }

\* typeof rocketParams[f] === 'number' for every f in fields: a field that is
\* missing is undefined, every field that is present holds a number
HasNumbers(rp, fields) == fields \subseteq DOMAIN rp

\* the result of calculateProjectedArea for parameters that fail its check;
\* it has no noseArea
ZeroedAreas ==
  [frontalArea |-> XFin(0), sideArea |-> XFin(0), finArea |-> XFin(0),
   totalFinArea |-> XFin(0), angledArea |-> XFin(0)]

\* Math.sqrt(Math.pow(x, 2) + Math.pow(y, 2))
XHypot(x, y) ==
  IF x.k = "nan" \/ y.k = "nan" THEN XNaN
  ELSE IF x.k = "inf" \/ y.k = "inf" THEN XInf(1)
       ELSE XFin(Hypot(x.v, y.v))

ProjectedAreaOfNumbers(rp) ==
  LET bodyArea == XFin(rp.bodyWidth * rp.bodyHeight * 100)
      noseArea == IF rp.noseShape = "cone"
                  THEN XFin(rp.bodyWidth * rp.noseHeight * 50)
                  ELSE XFin((rp.bodyWidth * rp.noseHeight * 200) \div 3)
      frontalArea == XFin((rp.bodyWidth * rp.bodyWidth * 7854) \div 100
                          + rp.finHeight * rp.finThickness * 40)
      \* overlapFinBaseWidth, in micrometres
      taper == XDiv(XFin((rp.finTipWidth - rp.finBaseWidth) * rp.finBaseWidth * 78),
                    XFin(rp.finHeight), 1)
      overlapFinBaseWidth ==
        IF rp.finSweepLength + rp.finTipWidth >= rp.finBaseWidth
        THEN XSub(XAdd(taper, XFin(rp.finBaseWidth * 1000)),
                  XDiv(XFin(rp.finTipWidth * rp.bodyWidth * 78), XFin(rp.finHeight), 1))
        ELSE XAdd(taper, XFin(rp.finBaseWidth * 1000))
      finArea ==
        IF rp.finCount = 3
        THEN XSub(XFin((rp.finHeight * (rp.finBaseWidth + rp.finTipWidth) * 173) \div 4),
                  XMul(XAdd(overlapFinBaseWidth, XFin(rp.finBaseWidth * 1000)),
                       XFin(rp.bodyWidth * 675), 200000))
        ELSE XFin(rp.finHeight * (rp.finBaseWidth + rp.finTipWidth) * 50)
      totalFinArea == XScale(finArea, 2, 1)
  IN [frontalArea |-> frontalArea,
      sideArea |-> XAdd(XAdd(bodyArea, noseArea), totalFinArea),
      noseArea |-> noseArea,
      finArea |-> finArea,
      totalFinArea |-> totalFinArea,
      angledArea |-> XHypot(frontalArea, XAdd(XAdd(bodyArea, noseArea), totalFinArea))]

\* calculateProjectedArea: the areas, or the zeroed result when a required
\* field is not a number
calculateProjectedArea(rp) ==
  IF HasNumbers(rp, RequiredNumbers) THEN ProjectedAreaOfNumbers(rp) ELSE ZeroedAreas

\* calculateVolume checks nothing: a missing field is undefined, mmToM of it
\* is NaN and so is every volume computed from it
calculateVolume(rp) ==
  LET bodyVolume ==
        IF HasNumbers(rp, { "bodyWidth", "bodyHeight" })
        THEN XFin(MulDiv(rp.bodyWidth * rp.bodyWidth * rp.bodyHeight, 7854, 10000))
        ELSE XNaN
      noseVolume ==
        IF HasNumbers(rp, { "bodyWidth", "noseHeight" })
        THEN XFin(IF rp.noseShape = "cone"
                  THEN MulDiv(rp.bodyWidth * rp.bodyWidth * rp.noseHeight, 7854, 10000) \div 3
                  ELSE IF rp.noseShape = "parabola"
                       THEN MulDiv(rp.bodyWidth * rp.bodyWidth * rp.noseHeight, 7854, 10000) \div 2
                       ELSE (2 * MulDiv(rp.bodyWidth * rp.bodyWidth * rp.noseHeight, 7854, 10000)) \div 3)
        ELSE XNaN
  IN [bodyVolume |-> bodyVolume, noseVolume |-> noseVolume,
      totalVolume |-> XAdd(bodyVolume, noseVolume)]

\* the area-weighted mean of the centers of pressure of nose, body and fins;
\* areas is the result of calculateProjectedArea
CenterOfPressureOfAreas(rp, areas) ==
  LET noseCp == IF HasNumbers(rp, { "noseHeight" })
                THEN XFin(rp.noseHeight * (IF rp.noseShape = "cone" THEN 666
                                           ELSE IF rp.noseShape = "parabola" THEN 614 ELSE 575))
                ELSE XNaN
      bodyCp == IF HasNumbers(rp, { "noseHeight", "bodyHeight" })
                THEN XFin(rp.noseHeight * 1000 + rp.bodyHeight * 500)
                ELSE XNaN
      \* (finCP_y_section1 * section1 + finCP_y_section2 * section2) / finSection_single
      finCP_single ==
        IF HasNumbers(rp, { "finBaseWidth", "finSweepLength", "finTipWidth", "finHeight" })
        THEN XDiv(XFin(((rp.finBaseWidth + rp.finSweepLength) * rp.finBaseWidth
                        + (rp.finBaseWidth + 2 * rp.finSweepLength + rp.finTipWidth)
                            * rp.finTipWidth)
                       * rp.finHeight),
                  XFin(3 * (rp.finBaseWidth + rp.finTipWidth) * rp.finHeight), 1000)
        ELSE XNaN
      finCp == IF HasNumbers(rp, { "noseHeight", "bodyHeight", "finBaseWidth" })
               THEN XAdd(XFin((rp.noseHeight + rp.bodyHeight - rp.finBaseWidth) * 1000),
                         finCP_single)
               ELSE XNaN
      \* the zeroed result of calculateProjectedArea has no noseArea
      noseArea == IF "noseArea" \in DOMAIN areas THEN areas.noseArea ELSE XNaN
      bodyArea == XSub(XSub(areas.sideArea, noseArea), areas.totalFinArea)
      totalFinArea == areas.totalFinArea
      totalArea == XAdd(XAdd(noseArea, bodyArea), totalFinArea)
      weighted == XAdd(XAdd(XMul(noseCp, noseArea, 10000), XMul(bodyCp, bodyArea, 10000)),
                       XMul(finCp, totalFinArea, 10000))
  IN [noseCp |-> noseCp, bodyCp |-> bodyCp, finCp |-> finCp,
      centerOfPressure |-> XDiv(weighted, totalArea, 10000)]

\* calculateCenterOfPressure
calculateCenterOfPressure(rp) == CenterOfPressureOfAreas(rp, calculateProjectedArea(rp))

\* ((bodyWidth / 2) + finHeight) [* 1.732 / 2]
FinSpan(rp) ==
  ((rp.bodyWidth * 500 + rp.finHeight * 1000) * (IF rp.finCount = 3 THEN 866 ELSE 1000)) \div 1000

\* the aerodynamic center from the chord at the body (lengthOfCo) and the
\* taper ratio ramda = finTipWidth / lengthOfCo
AerodynamicCenterOfTaper(rp, lengthOfCo, ramda) ==
  LET one == XFin(1000000)
      span == FinSpan(rp)
      onePlus == XAdd(one, ramda)
      c_bar == XDiv(XMul(XScale(lengthOfCo, 2, 3),
                         XAdd(onePlus, XMul(ramda, ramda, 1000000)), 1000000),
                    onePlus, 1000000)
      y_bar == XDiv(XMul(XFin(span), XAdd(one, XScale(ramda, 2, 1)), 1000000),
                    XScale(onePlus, 3, 1), 1000000)
      wingArea == XMul(XAdd(XFin(rp.finTipWidth * 1000), lengthOfCo), XFin(span), 10000)
      Vstar_fus == XDiv(calculateVolume(rp).totalVolume,
                        XMul(c_bar, wingArea, 100000), 1000000)
      fullSpan == IF rp.finCount = 3 THEN 2 * span
                  ELSE 2 * (rp.finHeight + rp.bodyWidth) * 1000
      aspectRatio == XDiv(XMul(XFin(fullSpan), XFin(fullSpan), 10000), wingArea, 1000000)
      halfSpan == IF rp.finCount = 3
                  THEN ((rp.finHeight * 1000 + rp.bodyWidth * 500) * 433) \div 1000
                  ELSE (rp.finHeight * 1000 + rp.bodyWidth * 500) \div 2
      q == XDiv(XFin(rp.bodyWidth * 500), XFin(halfSpan), 1000000)
      w == XSub(one, XMul(q, q, 1000000))
      cl_alpha == XMul(XScale(aspectRatio, 157, 100), XMul(w, w, 1000000), 1000000)
      hn == XSub(XFin(250000), XDiv(XScale(Vstar_fus, 2, 1), cl_alpha, 1000000))
      hnwc_bar == XMul(hn, c_bar, 1000000)
      x1 == XDiv(XFin(rp.bodyWidth * rp.finSweepLength * 500), XFin(rp.finHeight), 1)
      x2 == XDiv(XMul(y_bar,
                      XSub(XAdd(x1, XFin((rp.finSweepLength + rp.finTipWidth) * 1000)),
                           lengthOfCo), 1000),
                 XFin(span), 1000)
      small_xac == XSub(XSub(c_bar, x2), hnwc_bar)
  IN [aerodynamicCenter |-> XSub(XFin((rp.noseHeight + rp.bodyHeight) * 1000), small_xac)]

\* calculateAerodynamicCenter
calculateAerodynamicCenter(rp) ==
  LET k == IF rp.finCount = 3 THEN 866 ELSE 1000
      lengthOfCo ==
        XAdd(XMul(XDiv(XFin((rp.finBaseWidth - rp.finTipWidth) * 1000),
                       XFin(rp.finHeight * k), 1000000),
                  XFin(FinSpan(rp)), 1000000),
             XFin(rp.finTipWidth * 1000))
  IN AerodynamicCenterOfTaper(rp, lengthOfCo,
                              XDiv(XFin(rp.finTipWidth * 1000), lengthOfCo, 1000000))

(***************************************************************************)
(* The aerodynamic moments, in units of 10^-8 N m.  Every argument is a     *)
(* double (velocity in mm/s, angles in 10^-5 rad, positions and lengths in  *)
(* micrometres, areas in 0.01 mm^2); an argument the caller does not pass   *)
(* is undefined, which arithmetic turns into NaN.                           *)
(***************************************************************************)
\* MIN_MOMENT = 0.00001
MIN_MOMENT == 1000

\* variant of MinMomentGuard that returns the moment as computed
MinMomentGuardNone(finalMoment) == finalMoment

\* the closing lines of the moment functions: a non-zero moment below
\* MIN_MOMENT is raised to it, keeping the sign
MinMomentGuard(finalMoment) ==
  IF finalMoment.k = "fin" /\ finalMoment.v # 0 /\ Abs(finalMoment.v) < MIN_MOMENT
  THEN XFin(Sign(finalMoment.v) * MIN_MOMENT)
  ELSE finalMoment

\* Math.min(velocity * velocity, 10000), in 10^-3 m^2/s^2
VelocitySquaredCapped(velocity) == MathMin(XMul(velocity, velocity, 1000), 10000000)

calculateLiftMoment(velocity, omega, flightAngle, rocketParams, sideArea, aerodynamicCenter, centerOfGravity) ==
  LET velocitySquared == VelocitySquaredCapped(velocity)
      angleOfAttack == XSub(omega, flightAngle)
      arm == XSub(aerodynamicCenter, centerOfGravity)
      \* |0.6 * aoa * 0.5 * 1.225 * v^2 * sideArea * arm * 0.001|
      momentMagnitude ==
        XKeepPositive(
          XAbs(XScale(XMul(XMul(XMul(angleOfAttack, velocitySquared, 100000),
                                sideArea, 1000000), arm, 1000), 3675, 10000)),
          XNonZero(angleOfAttack) /\ XNonZero(velocity) /\ XNonZero(sideArea) /\ XNonZero(arm))
      finalMoment ==
        IF \/ (XGe(aerodynamicCenter, centerOfGravity) /\ XLt(angleOfAttack, XFin(0)))
           \/ (XLt(aerodynamicCenter, centerOfGravity) /\ XGe(angleOfAttack, XFin(0)))
        THEN XNeg(momentMagnitude) ELSE momentMagnitude
  IN IF finalMoment.k = "fin" /\ finalMoment.v # 0 /\ Abs(finalMoment.v) < MIN_MOMENT
     THEN XFin(Sign(finalMoment.v) * MIN_MOMENT)
     ELSE IF XAbsGreater(angleOfAttack, 50000) THEN XScale(finalMoment, 12, 10)
          ELSE finalMoment

calculateDragMoment(velocity, omega, flightAngle, rocketParams, bodyDiameter, aerodynamicCenter, centerOfGravity) ==
  LET velocitySquared == VelocitySquaredCapped(velocity)
      angleOfAttack == XSub(omega, flightAngle)
      arm == XSub(aerodynamicCenter, centerOfGravity)
      \* 0.01 * aoa^2 - 0.02 * aoa + 0.63, in 10^-6
      dragCoefficient ==
        XAdd(XSub(XMul(angleOfAttack, angleOfAttack, 1000000), XScale(angleOfAttack, 1, 5)),
             XFin(630000))
      \* |dc * 0.5 * 1.225 * v^2 * (bodyDiameter * 0.001 / 2)^2 * 3.14 * arm * 0.001|
      momentMagnitude ==
        XKeepPositive(
          XAbs(XScale(XMul(XMul(XMul(dragCoefficient, velocitySquared, 1000000),
                                XMul(bodyDiameter, bodyDiameter, 10000), 1000000),
                           arm, 1000), 4808, 10000)),
          XNonZero(dragCoefficient) /\ XNonZero(velocity) /\ XNonZero(bodyDiameter)
            /\ XNonZero(arm))
      finalMoment ==
        IF \/ (XGe(aerodynamicCenter, centerOfGravity) /\ XLt(angleOfAttack, XFin(0)))
           \/ (XLt(aerodynamicCenter, centerOfGravity) /\ XGe(angleOfAttack, XFin(0)))
        THEN XNeg(momentMagnitude) ELSE momentMagnitude
  IN MinMomentGuard(finalMoment)

calculateWindMoment(noseHeight, bodyDiameter, bodyHeight, windSpeed, omega, totalFinArea, centerOfPressure, stabilityCenterOfPressure, centerOfGravity) ==
  LET safeWindSpeed == MathMax(-25000, MathMin(windSpeed, 25000))
      wind2 == XMul(safeWindSpeed, safeWindSpeed, 1000)
      \* forces in 10^-5 N
      Dwf == XScale(XMul(wind2, totalFinArea, 1000000), 4905, 10000)
      Dwb == XScale(XMul(XMul(wind2, bodyDiameter, 10000), XAdd(bodyHeight, noseHeight), 1000000),
                    140875, 1000000)
      cosAngle == XCos(omega)
      arm == XSub(centerOfPressure, centerOfGravity)
      momentMagnitude ==
        XKeepPositive(
          XAbs(XMul(XMul(XAdd(Dwf, Dwb), cosAngle, 10000), arm, 1000)),
          XNonZero(XAdd(Dwf, Dwb)) /\ XNonZero(cosAngle) /\ XNonZero(arm))
      finalMoment ==
        IF \/ (XGe(centerOfPressure, centerOfGravity) /\ XLt(windSpeed, XFin(0)))
           \/ (XLt(centerOfPressure, centerOfGravity) /\ XGe(windSpeed, XFin(0)))
        THEN momentMagnitude ELSE XNeg(momentMagnitude)
  IN MinMomentGuard(finalMoment)

calculateFinMoment(finHeight, finBaseWidth, finCount, velocity, omega, flightAngle, rocketParams, finCp, centerOfGravity) ==
  LET \* mmToM(finCp) - centerOfGravity: metres minus millimetres, as the code
      \* subtracts them; in units of 10^-3
      offset == XSub(XScale(finCp, 1, 1000), centerOfGravity)
      angleOfAttack == XSub(omega, flightAngle)
      velocity2 == XMul(velocity, velocity, 1000)
      \* cd * 0.5 * rho * v^2 * totalLeanFinArea, in 10^-5 N
      dragOfFinLean ==
        XScale(XMul(XMul(XMul(angleOfAttack, velocity2, 100000),
                         XMul(finHeight, finBaseWidth, 1), 10000),
                    XSin(angleOfAttack), 10000),
               IF finCount = 3 THEN 36488 ELSE 42134, 10000)
      momentArm == XAbs(offset)
      momentMagnitude ==
        XKeepPositive(
          XAbs(XMul(dragOfFinLean, momentArm, 1000)),
          XNonZero(angleOfAttack) /\ XNonZero(XSin(angleOfAttack)) /\ XNonZero(velocity)
            /\ XNonZero(finHeight) /\ XNonZero(finBaseWidth) /\ XNonZero(offset))
      finalMoment ==
        IF \/ (XGe(XScale(finCp, 1, 1000), centerOfGravity) /\ XLt(angleOfAttack, XFin(0)))
           \/ (XLt(XScale(finCp, 1, 1000), centerOfGravity) /\ XGe(angleOfAttack, XFin(0)))
        THEN momentMagnitude ELSE XNeg(momentMagnitude)
  IN MinMomentGuard(finalMoment)

(***************************************************************************)
(* The loop clock.  dt = 0.02 is the double Mc * 2^-58 with                 *)
(* Mc = 0x147AE147AE147B.  A time is the record [i, e] standing for the     *)
(* double (i*Mc + e) * 2^-58: i counts the added steps and e is the         *)
(* rounding error accumulated so far, in units of 2^-58 s.                  *)
(***************************************************************************)
\* Mc mod 2^11: the low bits of the significand of 0.02
McLow == 1147

\* 50*Mc - 2^58: one second is (50*Mc - McExcess) units of 2^-58 s
McExcess == 6

\* ceiling of Mc / 2^43
McHigh == 656

\* (i*Mc + e) * 2^-58 >= 2^k, for -6 <= k
TimeAtLeastPow2(i, e, k) ==
  LET lhs == IF k >= 0 THEN i - 50 * 2^k ELSE i * 2^(-k) - 50
  IN lhs > 0 \/ (lhs = 0 /\ i * McExcess + 50 * e >= 0)

\* the binade of a time below 32 s: the largest k in -6..4 with time >= 2^k
Binade(i, e) ==
  CHOOSE k \in -6..4 :
    TimeAtLeastPow2(i, e, k) /\ (k = 4 \/ ~TimeAtLeastPow2(i, e, k + 1))

\* the e' such that (i*Mc + e') * 2^-58 is the double nearest to the real
\* number (i*Mc + e) * 2^-58 (round to nearest, ties to even); below 32 s
TimeRound(i, e) ==
  IF i = 0 THEN e
  ELSE LET k == Binade(i, e)
           g == IF k + 6 > 0 THEN 2^(k + 6) ELSE 1
           low == (i * McLow + e) % (2 * g)
           r == low % g
           up == 2 * r > g \/ (2 * r = g /\ low >= g)
       IN e - r + (IF up THEN g ELSE 0)

\* variant of TimePlusDt that leaves the time as it is
TimePlusDtNone(t) == t

\* time += dt
TimePlusDt(t) == [i |-> t.i + 1, e |-> TimeRound(t.i + 1, t.e)]

\* the double n * dt
TimeOfProduct(n) == [i |-> n, e |-> TimeRound(n, 0)]

\* the double t + n for a whole number n of seconds
TimePlusSeconds(t, n) ==
  [i |-> t.i + 50 * n, e |-> TimeRound(t.i + 50 * n, t.e - McExcess * n)]

\* a < b for two times
TimeLess(a, b) == a.i < b.i \/ (a.i = b.i /\ a.e < b.e)

\* Math.floor(time / dt): the quotient is rounded to a double before the floor,
\* so it is i - 1 when the accumulated error lies more than half an ulp below i
FloorTimeOverDt(t) ==
  IF t.i = 0 THEN 0
  ELSE LET p == Bits(t.i) - 1
           shift == IF t.i = 2^p THEN 11 - p ELSE 10 - p
       IN IF t.e < 0 /\ (-t.e) * 2^shift >= McHigh THEN t.i - 1 ELSE t.i

\* the double 0.1 and MAX_TIME = 20 as times
TimeTenth == [i |-> 5, e |-> 1]

MAX_TIME == [i |-> 1000, e |-> -120]


(***************************************************************************)
(* State.  The flight integrator: pc is the position of the run, inp the    *)
(* arguments of calculateFlightPath, env the constants it derives before    *)
(* the loop, st its local variables and data the sample sequence.  call is  *)
(* the latest call of one of the pure functions with its result.            *)
(***************************************************************************)
VARIABLES pc, inp, env, st, data, call

vars == <<pc, inp, env, st, data, call>>

flightVars == <<pc, inp, env, st, data>>

(***************************************************************************)
(* Calls of the pure functions on inputs from small sets.  Lengths in mm,   *)
(* velocities in mm/s, angles in 10^-5 rad.                                 *)
(***************************************************************************)
\* number of fin geometries tried, out of FinGeometries
MaxGeometries == 6

\* number of velocities tried, out of Velocities
MaxVelocities == 9

\* number of heights tried, out of Heights
MaxHeights == 8

FinGeometries ==
  << [finHeight |-> 60, finBaseWidth |-> 80, finTipWidth |-> 40, finThickness |-> 2, finSweepLength |-> 20],
     [finHeight |-> 0,  finBaseWidth |-> 80, finTipWidth |-> 40, finThickness |-> 2, finSweepLength |-> 20],
     [finHeight |-> 0,  finBaseWidth |-> 80, finTipWidth |-> 40, finThickness |-> 2, finSweepLength |-> 30],
     [finHeight |-> 60, finBaseWidth |-> 80, finTipWidth |-> 40, finThickness |-> 0, finSweepLength |-> 20],
     [finHeight |-> 90, finBaseWidth |-> 60, finTipWidth |-> 0,  finThickness |-> 1, finSweepLength |-> 60],
     [finHeight |-> 60, finBaseWidth |-> 0,  finTipWidth |-> 0,  finThickness |-> 2, finSweepLength |-> 0],
     [finHeight |-> 30, finBaseWidth |-> 50, finTipWidth |-> 50, finThickness |-> 3, finSweepLength |-> 0] >>

Velocities ==
  << XFin(0), XFin(5000), XFin(20000), XFin(50000), XFin(100000), XFin(200000),
     XFin(300000), XFin(400000), XNaN, XInf(1) >>

Heights == << -1000, 0, 1, 1500, 3000, 50000, 400000, 2000000, 5000000 >>

Geometry(n) == { FinGeometries[j] : j \in 1..Min(n, Len(FinGeometries)) }

VelocityInputs(n) == { Velocities[j] : j \in 1..Min(n, Len(Velocities)) }

HeightInputs(n) == { Heights[j] : j \in 1..Min(n, Len(Heights)) }

MaterialInputs == { "balsa", "plywood", "carbon" }

AngleChangeInputs == { XFin(-10000), XFin(0), XFin(10000) }

BodyInputs ==
  { [bodyWidth |-> 40, bodyHeight |-> 400, noseHeight |-> 100],
    [bodyWidth |-> 40, bodyHeight |-> 3000, noseHeight |-> 300] }

\* the result of a call that has not been made yet
Pending == [k |-> "pending", v |-> 0]

RocketParamsOf(finParams, m, body) ==
  [finHeight |-> finParams.finHeight, finBaseWidth |-> finParams.finBaseWidth,
   finTipWidth |-> finParams.finTipWidth, finSweepLength |-> finParams.finSweepLength,
   finThickness |-> finParams.finThickness, finMaterial |-> m,
   bodyWidth |-> body.bodyWidth, bodyHeight |-> body.bodyHeight,
   noseHeight |-> body.noseHeight]

\* the calls to make: function and arguments (the velocity of a deflection
\* call is drawn at each call, the other arguments are fixed here)
CallInputs ==
  { [fn |-> f, arg |-> [velocity |-> XFin(0), material |-> m, finParams |-> finParams,
                        angleChangePerDt2 |-> angleChangePerDt2], ret |-> Pending] :
      f \in { "calculateFinDeflection", "calculateFinDeflection_v1" },
      m \in MaterialInputs, finParams \in Geometry(MaxGeometries),
      angleChangePerDt2 \in AngleChangeInputs }
  \cup
  { [fn |-> "calculateWindSpeedAtHeight",
     arg |-> [baseWindSpeed |-> baseWindSpeed, height |-> height, profile |-> profile],
     ret |-> Pending] :
      baseWindSpeed \in { -5000, -1000, 0, 1000, 3000 }, height \in HeightInputs(MaxHeights),
      profile \in { "uniform", "open", "suburb", "urban", "forest" } }
  \cup
  { [fn |-> f, arg |-> RocketParamsOf(finParams, m, body), ret |-> Pending] :
      f \in { "calculateFinDivergenceSpeed", "calculateFinFlutterSpeed" },
      finParams \in Geometry(MaxGeometries), m \in { "balsa", "plywood" },
      body \in BodyInputs }

\* the flight variables while only the pure functions are exercised
FlightIdle ==
  /\ pc = "idle"
  /\ inp = <<>>
  /\ env = <<>>
  /\ st = <<>>
  /\ data = <<>>

InitPure == FlightIdle /\ call \in CallInputs

CallFinDeflection ==
  /\ UNCHANGED flightVars
  /\ call.fn = "calculateFinDeflection"
  /\ \E velocity \in VelocityInputs(MaxVelocities) :
       call' = [call EXCEPT !.arg.velocity = velocity,
                            !.ret = calculateFinDeflection(velocity,
                                      Lookup(FIN_MATERIALS, call.arg.material),
                                      call.arg.finParams, call.arg.angleChangePerDt2)]

CallFinDeflection_v1 ==
  /\ UNCHANGED flightVars
  /\ call.fn = "calculateFinDeflection_v1"
  /\ \E velocity \in VelocityInputs(MaxVelocities) :
       call' = [call EXCEPT !.arg.velocity = velocity,
                            !.ret = calculateFinDeflection_v1(velocity,
                                      Lookup(FIN_MATERIALS, call.arg.material),
                                      call.arg.finParams, call.arg.angleChangePerDt2)]

CallWindSpeedAtHeight ==
  /\ UNCHANGED flightVars
  /\ call.fn = "calculateWindSpeedAtHeight"
  /\ call.ret = Pending
  \* an unknown profile is looked up only above the ground: that call throws
  /\ call' = [call EXCEPT !.ret =
                IF call.arg.height > 0 /\ call.arg.profile \notin DOMAIN WIND_PROFILES
                THEN Throw
                ELSE XFin(calculateWindSpeedAtHeight(call.arg.baseWindSpeed,
                                                     call.arg.height, call.arg.profile))]

CallFinDivergenceSpeed ==
  /\ UNCHANGED flightVars
  /\ call.fn = "calculateFinDivergenceSpeed"
  /\ call.ret = Pending
  /\ call' = [call EXCEPT !.ret = calculateFinDivergenceSpeed(call.arg)]

CallFinFlutterSpeed ==
  /\ UNCHANGED flightVars
  /\ call.fn = "calculateFinFlutterSpeed"
  /\ call.ret = Pending
  /\ call' = [call EXCEPT !.ret = calculateFinFlutterSpeed(call.arg)]

NextPure ==
  \/ CallFinDeflection
  \/ CallFinDeflection_v1
  \/ CallWindSpeedAtHeight
  \/ CallFinDivergenceSpeed
  \/ CallFinFlutterSpeed

SpecPure == InitPure /\ [][NextPure]_vars

(***************************************************************************)
(* Properties of the pure functions, under SpecPure                         *)
(***************************************************************************)
IsDeflectionCall ==
  call.fn \in { "calculateFinDeflection", "calculateFinDeflection_v1" } /\ call.ret # Pending

\* C7: calculateFinDeflection (both variants) returns to its caller, for any
\* input, a number that is at most 15 mm: no error is propagated.
C7_DeflectionReturnsAtMost15 ==
  IsDeflectionCall => call.ret.k = "fin" /\ call.ret.v <= 15000

\* C8: for fixed fin geometry, material and angle-change input,
\* calculateFinDeflection returns 0 at velocity 0, and of two calls the one
\* with the larger (finite) velocity does not return the smaller value.
C8_DeflectionMonotoneInVelocity ==
  [][ /\ (call'.fn \in { "calculateFinDeflection", "calculateFinDeflection_v1" }
            /\ call'.arg.velocity = XFin(0)
            /\ call'.ret # Pending
            /\ call'.ret # Throw)
         => call'.ret = XFin(0)
      /\ (/\ IsDeflectionCall
          /\ call'.fn = call.fn
          /\ call.ret.k = "fin" /\ call'.ret.k = "fin"
          /\ call.arg.velocity.k = "fin" /\ call'.arg.velocity.k = "fin"
          /\ call.arg.velocity.v <= call'.arg.velocity.v)
         => call.ret.v <= call'.ret.v ]_vars

IsWindCall == call.fn = "calculateWindSpeedAtHeight" /\ call.ret # Pending

\* C9: calculateWindSpeedAtHeight returns the base wind unchanged for every
\* height <= 0 whatever the profile, and above the ground, for a profile of
\* the table, base * min((height/1.5)^alpha, 3): at most 3 times the base
\* wind in magnitude and of the sign of the base wind.
C9_WindSpeedAtHeight ==
  IsWindCall =>
    /\ call.arg.height <= 0 => call.ret = XFin(call.arg.baseWindSpeed)
    /\ (call.arg.height > 0 /\ call.arg.profile \in DOMAIN WIND_PROFILES) =>
         /\ call.ret.k = "fin"
         /\ Abs(call.ret.v) <= 3 * Abs(call.arg.baseWindSpeed)
         /\ call.ret.v * call.arg.baseWindSpeed >= 0
         /\ LET alpha == WIND_PROFILES[call.arg.profile].alpha
                m == IF alpha = 0 THEN 1000
                     ELSE Min(PowEighths(call.arg.height, alpha), 3000)
            IN Abs(call.ret.v) = (Abs(call.arg.baseWindSpeed) * m) \div 1000

\* C9 witness: a call high above the ground where the power law exceeds the
\* cap, answered with exactly 3 times a non-zero base wind
C9_Witness ==
  /\ IsWindCall
  /\ call.arg.height > 0
  /\ call.arg.baseWindSpeed # 0
  /\ call.arg.profile = "urban"
  /\ call.ret = XFin(3 * call.arg.baseWindSpeed)

\* C10: for any finite material/geometry input, degenerate ones included,
\* calculateFinDivergenceSpeed returns a value in [20, 300] m/s and
\* calculateFinFlutterSpeed a value in [30, 400] m/s, on every return path.
C10_SpeedsWithinClamps ==
  /\ (call.fn = "calculateFinDivergenceSpeed" /\ call.ret # Pending) =>
       call.ret.k = "fin" /\ call.ret.v >= 20000 /\ call.ret.v <= 300000
  /\ (call.fn = "calculateFinFlutterSpeed" /\ call.ret # Pending) =>
       call.ret.k = "fin" /\ call.ret.v >= 30000 /\ call.ret.v <= 400000

(***************************************************************************)
(* The flight integrator, calculateFlightPath.  Units: time as a loop       *)
(* clock, positions in 0.1 mm, velocities in mm/s, accelerations in mm/s^2, *)
(* forces in 10^-5 N, mass in g, angles in 10^-5 rad, angular velocity in   *)
(* 10^-5 rad/s, torques in 10^-8 N m, moment of inertia in 10^-9 kg m^2,    *)
(* degrees in millidegrees.                                                 *)
(***************************************************************************)
\* thrust samples in mN, one every dt, of the motors of RocketConstants; a
\* motor name is the pair <<class, delay>> standing for "class-delay"
MOTOR_THRUST_DATA ==
  (<<"C6", 5>> :> [j \in 1..93 |->
      IF j <= 6 THEN 3000 + 2200 * (j - 1)
      ELSE IF j <= 12 THEN 14000 - 1500 * (j - 6)
      ELSE IF j <= 88 THEN 4700
      ELSE 4700 - 900 * (j - 88)])
  @@ (<<"A8", 3>> :> [j \in 1..25 |->
      IF j <= 4 THEN 3000 + 2500 * (j - 1)
      ELSE IF j <= 10 THEN 10000 - 1000 * (j - 4)
      ELSE IF j <= 22 THEN 3700
      ELSE 3700 - 1100 * (j - 22)])
  @@ (<<"B6", 0>> :> [j \in 1..40 |->
      IF j <= 24 THEN 500 * j
      ELSE IF j <= 36 THEN 5000
      ELSE 5000 - 1000 * (j - 36)])

\* PHYSICAL_CONSTANTS.launchRailLength, in 0.1 mm
PHYSICAL_CONSTANTS == [launchRailLength |-> 10000]

\* ANGLE_RESPONSE_DT in ms, and its quotient by dt = 20 ms
ANGLE_RESPONSE_DT == 200

ANGLE_STEPS_PER_UPDATE == 10

\* drag coefficients of the nose shapes, in 10^-3
NOSE_SHAPES == [cone |-> [cd |-> 500], parabola |-> [cd |-> 450], ogive |-> [cd |-> 400]]

ENHANCED_ATTITUDE_CONTROL == TRUE

WIND_ANGLE_LIMITATION == FALSE

\* a ?? b for an optional value: <<>> is undefined, <<v>> is the value v
Nullish(a, b) == IF a = <<>> THEN b ELSE a[1]

\* config?.field for an optional config
OptionalField(config, field) == IF config = <<>> THEN <<>> ELSE config[1][field]

\* parseInt(selectedMotor.split('-')[1])
ParseMotorDelay(selectedMotor) == selectedMotor[2]

\* parseInt(selectedParachute.slice(1)): a parachute name is the pair of its
\* first character and the digits that follow
ParseParachuteDiameter(selectedParachute) == selectedParachute[2]

\* angle * Math.PI / 180
DegreesToRadians(angle) == Rdiv(angle * PI, 180)

\* radians to millidegrees: x * 180 / Math.PI
RadiansToMilliDegrees(x) == SMulDiv(x, 5729578, 10000000)

\* the constants calculateFlightPath derives before its loop
FlightConstants(rocketParams, config) ==
  LET thrustData == MOTOR_THRUST_DATA[rocketParams.selectedMotor]
      bodyLength == rocketParams.bodyHeight + rocketParams.noseHeight
      thrustEndTime == TimeOfProduct(Len(thrustData))
      parachuteDelay == ParseMotorDelay(rocketParams.selectedMotor)
      parachuteEjectionTime == TimePlusSeconds(thrustEndTime, parachuteDelay)
  IN [useEnhancedAttitudeControl |->
        Nullish(OptionalField(config, "enhancedAttitudeControl"), ENHANCED_ATTITUDE_CONTROL),
      useWindAngleLimitation |->
        Nullish(OptionalField(config, "windAngleLimitation"), WIND_ANGLE_LIMITATION),
      thrustData |-> thrustData,
      launchRailLength |-> PHYSICAL_CONSTANTS.launchRailLength,
      bodyLength |-> bodyLength,
      \* 0.25 * m * r^2 + 0.0833 * m * l^2
      momentOfInertia |->
        Rdiv(rocketParams.weight * rocketParams.bodyWidth * rocketParams.bodyWidth, 16)
          + MulDiv(rocketParams.weight * bodyLength, bodyLength * 833, 10000),
      noseCd |-> NOSE_SHAPES[rocketParams.noseShape].cd,
      finMaterial |-> Lookup(FIN_MATERIALS, rocketParams.finMaterial),
      thrustEndTime |-> thrustEndTime,
      parachuteEjectionTime |-> parachuteEjectionTime,
      parachuteActiveTime |-> TimePlusSeconds(parachuteEjectionTime, 1),
      parachuteDiameter |-> ParseParachuteDiameter(rocketParams.selectedParachute),
      projectedAreas |-> calculateProjectedArea(rocketParams),
      centerOfPressure |-> calculateCenterOfPressure(rocketParams),
      aerodynamicCenter |-> calculateAerodynamicCenter(rocketParams)]

\* the local variables of calculateFlightPath when its loop is entered
InitialState(angle) ==
  [time |-> [i |-> 0, e |-> 0], x |-> 0, y |-> 0, vx |-> 0, vy |-> 0,
   prev_vx |-> 0, prev_vy |-> 0,
   omega |-> DegreesToRadians(angle), prevOmega |-> DegreesToRadians(angle),
   angularVelocity |-> 0, angularAcceleration |-> 0,
   isParachuteEjected |-> FALSE, isParachuteActive |-> FALSE,
   parachuteDeploymentProgress |-> 0, finDeflection |-> 0,
   maxAngleChangePerDt2 |-> 0, isAngleStableOK |-> TRUE, thrustEndFlag |-> FALSE,
   angleChangeBuffer |-> <<>>, stepCounter |-> 0, totalTorque |-> XFin(0),
   angleChangePerDt2 |-> 0, maxHeight |-> 0, maxSpeed |-> 0, maxDistance |-> 0,
   maxFinDeflection |-> 0, railDistance |-> -1,
   keyPoints |-> [thrustEnd |-> [time |-> [i |-> 0, e |-> 0], height |-> 0, speed |-> 0],
                  maxHeight |-> [time |-> [i |-> 0, e |-> 0], height |-> 0, speed |-> 0],
                  parachuteEjection |-> [time |-> [i |-> 0, e |-> 0], height |-> 0, speed |-> 0],
                  parachuteActive |-> [time |-> [i |-> 0, e |-> 0], height |-> 0, speed |-> 0]]]

\* 0.5 * coefficient * rho * speed * speed * area with rho = 1.225, for a
\* coefficient in 10^-3 and an area in mm^2
DragForce(coefficient, speed, area) ==
  MulDiv(MulDiv(Abs(speed), Abs(speed), 1000), coefficient * area, 16326531)

\* Dw = 0.5 * Cdw * rho * Math.abs(w) * w * S with Cdw = 0.25
CrossWindForce(w, S) == Sign(w) * DragForce(250, w, S)

\* F / mass_kg
Acceleration(F, weight) == SMulDiv(F, 10, weight)

\* mass_kg * g, g = 9.81
Weight(rocketParams) == rocketParams.weight * 981

\* the height handed to calculateWindSpeedAtHeight, in mm, from y
HeightOf(y) == IF y > 0 THEN Max(1, y \div 10) ELSE y

\* Math.abs(angle) === 4 || Math.abs(angle) === 18
IsSpecialAngle(angle) == Abs(angle) = 4 \/ Abs(angle) = 18

\* variant of ParachuteActiveNow that forgets parachuteDeployTime
ParachuteActiveNowAtEjection(s, e) ==
  ~s.isParachuteActive /\ ~TimeLess(s.time, e.parachuteEjectionTime)

\* !isParachuteActive && time >= parachuteActiveTime
ParachuteActiveNow(s, e) ==
  ~s.isParachuteActive /\ ~TimeLess(s.time, e.parachuteActiveTime)

\* variant of DeployedVelocity that leaves the velocity as it is
DeployedVelocityUnchanged(v) == v

\* vx *= 0.1, vy *= 0.1
DeployedVelocity(v) == Rdiv(v, 10)

\* variant of DeploymentProgress without the test of isParachuteEjected
DeploymentProgressUnguarded(s, e, ejected) ==
  IF ~s.isParachuteActive
  THEN Min(1000, (s.time.i - e.parachuteEjectionTime.i) * 20)
  ELSE s.parachuteDeploymentProgress

\* if (isParachuteEjected && !isParachuteActive) parachuteDeploymentProgress =
\* Math.min(1, (time - parachuteEjectionTime) / parachuteDeployTime), per mille
DeploymentProgress(s, e, ejected) ==
  IF ejected /\ ~s.isParachuteActive
  THEN Min(1000, (s.time.i - e.parachuteEjectionTime.i) * 20)
  ELSE s.parachuteDeploymentProgress

\* the parachute update that opens the loop body: ejection, deployment
\* progress, and at full deployment the cut of both velocity components
ParachuteUpdate(s, e) ==
  LET ejectNow == ~s.isParachuteEjected /\ ~TimeLess(s.time, e.parachuteEjectionTime)
      ejected == s.isParachuteEjected \/ ejectNow
      progress == DeploymentProgress(s, e, ejected)
      activeNow == ParachuteActiveNow(s, e)
      vx == IF activeNow THEN DeployedVelocity(s.vx) ELSE s.vx
      vy == IF activeNow THEN DeployedVelocity(s.vy) ELSE s.vy
      kp1 == IF ejectNow
             THEN [s.keyPoints EXCEPT !.parachuteEjection =
                     [time |-> s.time, height |-> s.y, speed |-> s.vy]]
             ELSE s.keyPoints
      kp2 == IF activeNow
             THEN [kp1 EXCEPT !.parachuteActive = [time |-> s.time, height |-> s.y, speed |-> vy]]
             ELSE kp1
  IN [isParachuteEjected |-> ejected,
      isParachuteActive |-> s.isParachuteActive \/ activeNow,
      parachuteDeploymentProgress |-> IF activeNow THEN 1000 ELSE progress,
      vx |-> vx, vy |-> vy, keyPoints |-> kp2, activeNow |-> activeNow]

\* the torque limits shared by the two flight phases: a non-zero raw torque
\* below MIN_TORQUE_THRESHOLD = 0.0001 is raised to it, any other is clamped
\* by Math.max(-1.0, Math.min(1.0, rawTorque))
LimitTorque(rawTorque) ==
  IF rawTorque.k = "fin" /\ rawTorque.v # 0 /\ Abs(rawTorque.v) < 10000
  THEN XFin(Sign(rawTorque.v) * 10000)
  ELSE MathMax(-100000000, MathMin(rawTorque, 100000000))

\* the four moments as calculateFlightPath calls for them; calculateWindMoment
\* and calculateFinMoment each receive one argument fewer than they declare,
\* so their last parameter is undefined
Moments(rocketParams, e, velocity, adjustedOmega, flightAngle, effectiveWindSpeed) ==
  LET centerOfGravity == XFin(rocketParams.centerOfGravity * 1000)
  IN [ML |-> calculateLiftMoment(XFin(velocity), XFin(adjustedOmega), XFin(flightAngle),
                                 rocketParams, e.projectedAreas.sideArea,
                                 e.aerodynamicCenter.aerodynamicCenter, centerOfGravity),
      MD |-> calculateDragMoment(XFin(velocity), XFin(adjustedOmega), XFin(flightAngle),
                                 rocketParams, XScale(e.projectedAreas.sideArea, 1, 100000),
                                 e.aerodynamicCenter.aerodynamicCenter, centerOfGravity),
      MW |-> calculateWindMoment(XFin(rocketParams.noseHeight * 1000),
                                 XFin(rocketParams.bodyWidth),
                                 XFin(rocketParams.bodyHeight * 1000),
                                 XFin(effectiveWindSpeed), XFin(adjustedOmega),
                                 e.projectedAreas.totalFinArea,
                                 e.centerOfPressure.centerOfPressure, centerOfGravity, XNaN),
      MF |-> calculateFinMoment(XFin(rocketParams.finHeight), XFin(rocketParams.finBaseWidth),
                                rocketParams.finCount, XFin(velocity), XFin(flightAngle),
                                XNaN, XNaN, centerOfGravity, XNaN)]

\* torque of powered free flight, velocity > 1.0
ThrustPhaseTorque(m, angle) ==
  LET torque == IF XIsFinite(m.ML) /\ XIsFinite(m.MD) /\ XIsFinite(m.MW) /\ XIsFinite(m.MF)
                THEN LimitTorque(XAdd(XAdd(XAdd(m.ML, m.MD), m.MW), m.MF))
                ELSE XFin(0)
  IN IF IsSpecialAngle(angle) THEN XScale(torque, 12, 10) ELSE torque

\* torque of the coast, velocity > 0.5: the sum is not checked for NaN
CoastPhaseTorque(m, angle) ==
  LET torque == LimitTorque(XAdd(XAdd(XAdd(m.ML, m.MD), m.MW), m.MF))
  IN IF IsSpecialAngle(angle) THEN XScale(torque, 12, 10) ELSE torque

\* sum of a short sequence of integers
SumSeq(q) ==
  LET partial[j \in 0..Len(q)] == IF j = 0 THEN 0 ELSE partial[j - 1] + q[j]
  IN partial[Len(q)]

\* the accumulation of the torque and, every ANGLE_STEPS_PER_UPDATE steps, the
\* update of angular acceleration, angular velocity and angleChangePerDt2 with
\* the first stability check, given the angular acceleration and velocity the
\* update would set
AngleUpdateOfVelocity(s, torque, isParachuteEjected, thrustEndFlag, angularAcceleration, angularVelocity) ==
  LET totalTorque == XAdd(s.totalTorque, torque)
      stepCounter == s.stepCounter + 1
      product == SMulDiv(angularVelocity, ANGLE_RESPONSE_DT, 1000)
      \* MIN_ANGLE_CHANGE_PER_DT2 = 0.001
      angleChangePerDt2 == IF angularVelocity # 0 /\ Abs(product) < 100
                           THEN Sign(angularVelocity) * 100 ELSE product
      angleChangePerDt2Degrees == RadiansToMilliDegrees(angleChangePerDt2)
      checked == ~isParachuteEjected /\ thrustEndFlag
  IN IF stepCounter >= ANGLE_STEPS_PER_UPDATE
     THEN [totalTorque |-> XFin(0), stepCounter |-> 0,
           angularAcceleration |-> angularAcceleration,
           angularVelocity |-> angularVelocity,
           angleChangePerDt2 |-> angleChangePerDt2,
           maxAngleChangePerDt2 |->
             IF checked /\ Abs(angleChangePerDt2Degrees) > Abs(s.maxAngleChangePerDt2)
             THEN angleChangePerDt2Degrees ELSE s.maxAngleChangePerDt2,
           isAngleStableOK |->
             s.isAngleStableOK /\ ~(checked /\ Abs(angleChangePerDt2Degrees) > 10000)]
     ELSE [totalTorque |-> totalTorque, stepCounter |-> stepCounter,
           angularAcceleration |-> s.angularAcceleration,
           angularVelocity |-> s.angularVelocity,
           angleChangePerDt2 |-> s.angleChangePerDt2,
           maxAngleChangePerDt2 |-> s.maxAngleChangePerDt2,
           isAngleStableOK |-> s.isAngleStableOK]

\* the angular acceleration of the accumulated torque and the angular velocity
\* it gives, clamped to MAX_ANGULAR_VELOCITY = 3
AngleUpdate(s, e, torque, isParachuteEjected, thrustEndFlag) ==
  LET totalTorque == XAdd(s.totalTorque, torque)
      safeAvgTorque == IF XIsFinite(totalTorque) THEN totalTorque.v ELSE 0
      \* MIN_TORQUE = 0.00001
      effectiveTorque == IF safeAvgTorque # 0 /\ Abs(safeAvgTorque) < 1000
                         THEN Sign(safeAvgTorque) * 1000 ELSE safeAvgTorque
      angularAcceleration == SMulDiv(effectiveTorque, 1000000, e.momentOfInertia)
  IN AngleUpdateOfVelocity(s, torque, isParachuteEjected, thrustEndFlag, angularAcceleration,
       Max(-300000, Min(300000,
         s.angularVelocity + SMulDiv(angularAcceleration, ANGLE_RESPONSE_DT, 1000))))

\* variant of WindowExceeds with a limit far above every window sum
WindowExceedsNever(totalAngleChange) == Abs(totalAngleChange) > 10000000

\* Math.abs(totalAngleChange) > 10
WindowExceeds(totalAngleChange) == Abs(totalAngleChange) > 10000

\* the window of the last framesPerDt2 per-step changes of omega in degrees,
\* pushed being the buffer with the change of this step appended, and the
\* second stability check; u is the result of AngleUpdate
AttitudeWindow(s, u, isParachuteEjected, thrustEndFlag, omega, pushed) ==
  LET framesPerDt2 == ANGLE_RESPONSE_DT \div 20
      angleChangeBuffer == IF Len(pushed) > framesPerDt2 THEN Tail(pushed) ELSE pushed
      totalAngleChange == SumSeq(angleChangeBuffer)
      checked == ~isParachuteEjected /\ thrustEndFlag
  IN [omega |-> omega, angleChangeBuffer |-> angleChangeBuffer,
      totalAngleChange |-> totalAngleChange,
      maxAngleChangePerDt2 |->
        IF checked /\ Abs(totalAngleChange) > Abs(u.maxAngleChangePerDt2)
        THEN totalAngleChange ELSE u.maxAngleChangePerDt2,
      isAngleStableOK |-> u.isAngleStableOK /\ ~(checked /\ WindowExceeds(totalAngleChange))]

\* the per-step change of omega by angleChangePerDt2 / ANGLE_STEPS_PER_UPDATE
\* and its difference, in degrees within (-180, 180], to the omega of the
\* step before
PhysicalAttitude(s, u, isParachuteEjected, thrustEndFlag) ==
  LET \* MIN_ANGLE_CHANGE = 0.0001
      omega == IF u.angleChangePerDt2 # 0
                  /\ Abs(u.angleChangePerDt2) < 10 * ANGLE_STEPS_PER_UPDATE
               THEN s.omega + Sign(u.angleChangePerDt2) * 10
               ELSE s.omega + Rdiv(u.angleChangePerDt2, ANGLE_STEPS_PER_UPDATE)
      prevOmegaDegrees == JsMod(RadiansToMilliDegrees(s.prevOmega), 360000)
      currentOmegaDegrees == JsMod(RadiansToMilliDegrees(omega), 360000)
      delta == currentOmegaDegrees - prevOmegaDegrees
      deltaOmega == IF delta > 180000 THEN delta - 360000
                    ELSE IF delta < -180000 THEN delta + 360000 ELSE delta
  IN AttitudeWindow(s, u, isParachuteEjected, thrustEndFlag, omega,
                    Append(s.angleChangeBuffer, deltaOmega))

\* the target of the blend: flightAngle, the direction of the velocity; in
\* powered flight upwind in a wind of 0.5 m/s or more, with the wind-angle
\* limitation, flightAngle limited by a perpendicular to the wind
TargetOmega(flightAngle, vx, effectiveWindSpeed, thrustEndFlag, useWindAngleLimitation) ==
  LET windAngle == IF effectiveWindSpeed > 0 THEN 0 ELSE PI
      perpendicularToWind1 == windAngle + PI \div 2
      perpendicularToWind2 == windAngle - PI \div 2
      isMovingUpwind == \/ (effectiveWindSpeed < 0 /\ vx > 0)
                        \/ (effectiveWindSpeed > 0 /\ vx < 0)
  IN IF thrustEndFlag \/ Abs(effectiveWindSpeed) < 500 THEN flightAngle
     ELSE IF isMovingUpwind /\ useWindAngleLimitation
          THEN IF effectiveWindSpeed < 0 THEN Max(flightAngle, perpendicularToWind2)
               ELSE Min(flightAngle, perpendicularToWind1)
          ELSE flightAngle

\* omega is moved toward targetOmega by the rate adjustRate (finalAdjustRate
\* in powered flight), by at most maxChange = 0.2 per step
BlendToward(omega, targetOmega, velocity, effectiveWindSpeed, thrustEndFlag) ==
  LET \* Math.min(0.05, 0.002 * velocity), in 10^-6
      adjustRate == Min(50000, 2 * velocity)
      \* Math.min(0.8, Math.abs(effectiveWindSpeed) / 6.0), in 10^-4
      windFactor == Min(8000, Rdiv(Min(Abs(effectiveWindSpeed), 100000) * 10, 6))
      finalAdjustRate == IF thrustEndFlag THEN adjustRate
                         ELSE Rdiv(adjustRate * (10000 + windFactor), 10000)
      change == SMulDiv(targetOmega - omega, finalAdjustRate, 1000000)
  IN IF Abs(change) > 20000 THEN omega + Sign(change) * 20000 ELSE omega + change

\* the enhanced attitude control: omega is blended toward flightAngle, the
\* direction of the velocity, by at most maxChange = 0.2 per step
EnhancedControlToward(omega, flightAngle, vx, velocity, effectiveWindSpeed, thrustEndFlag, useWindAngleLimitation) ==
  BlendToward(omega,
              TargetOmega(flightAngle, vx, effectiveWindSpeed, thrustEndFlag,
                          useWindAngleLimitation),
              velocity, effectiveWindSpeed, thrustEndFlag)

\* flightAngle = Math.atan2(vx, vy)
EnhancedControl(omega, vx, vy, velocity, effectiveWindSpeed, thrustEndFlag, useWindAngleLimitation) ==
  EnhancedControlToward(omega, Atan2(vx, vy), vx, velocity, effectiveWindSpeed,
                        thrustEndFlag, useWindAngleLimitation)

\* forces, accelerations and torque of one step, by phase; p is the result of
\* ParachuteUpdate, w the effective wind speed, m the moments of the step
ForcesOfMoments(s, in, e, p, velocity, w, adjustedOmega, onLaunchRail, m) ==
  LET rp == in.rocketParams
      mg == Weight(rp)
      initialOmega == DegreesToRadians(in.angle)
      sinOmega == Sin(adjustedOmega)
      cosOmega == Cos(adjustedOmega)
      \* parachute fully open
      areaP == MulDiv(e.parachuteDiameter * e.parachuteDiameter, 7854, 10000)
      Dp == DragForce(775, velocity, areaP)
      DwP == CrossWindForce(w, MulDiv(e.parachuteDiameter * e.parachuteDiameter, 785, 1000))
      FxP == (IF velocity > 1 THEN -SMulDiv(Dp, s.prev_vx, velocity) ELSE 0) - DwP
      FyP == (IF velocity > 1 THEN -SMulDiv(Dp, s.prev_vy, velocity) ELSE 0) - mg
      \* parachute opening
      DwE == CrossWindForce(w, (rp.bodyWidth * e.bodyLength) \div 2)
      FxE == (IF velocity > 1 THEN -10 * s.prev_vx ELSE 0) - DwE \div 2
      FyE == -mg - (IF velocity > 1 THEN 10 * s.prev_vy ELSE 0)
      \* flight without parachute
      Area == MulDiv(rp.bodyWidth * rp.bodyWidth, 7854, 10000) + rp.finHeight * rp.finThickness * 4
      Dt == DragForce(e.noseCd, velocity, Area)
      Dw == CrossWindForce(w, rp.bodyWidth * e.bodyLength)
      powered == TimeLess(s.time, e.thrustEndTime)
      thrustIndex == Min(FloorTimeOverDt(s.time), Len(e.thrustData) - 1)
      thrust == IF powered THEN e.thrustData[thrustIndex + 1] * 100 ELSE 0
      alongX == SMulDiv(thrust, sinOmega, 10000)
      alongY == SMulDiv(thrust, cosOmega, 10000)
      dragX == IF velocity > 1 THEN SMulDiv(Dt, sinOmega, 10000) ELSE 0
      dragY == IF velocity > 1 THEN SMulDiv(Dt, cosOmega, 10000) ELSE 0
      FxF == IF powered /\ onLaunchRail
             THEN (IF in.angle = 0 THEN -Dw ELSE alongX - Dw)
             ELSE alongX - dragX - Dw
      FyF == IF powered /\ onLaunchRail
             THEN (IF in.angle = 0 THEN thrust - mg ELSE alongY - mg)
             ELSE alongY - mg - dragY
      torqueF == IF powered
                 THEN IF ~onLaunchRail /\ velocity > 1000
                      THEN ThrustPhaseTorque(m, in.angle) ELSE XFin(0)
                 ELSE IF velocity > 500 THEN CoastPhaseTorque(m, in.angle) ELSE XFin(0)
  IN IF p.isParachuteActive
     THEN [Fx |-> FxP, Fy |-> FyP, thrust |-> 0, coast |-> FALSE,
           torque |-> IF Abs(adjustedOmega - initialOmega) > 1000
                      THEN XFin(initialOmega - adjustedOmega) ELSE XFin(0)]
     ELSE IF p.isParachuteEjected
          THEN [Fx |-> FxE, Fy |-> FyE, thrust |-> 0, coast |-> FALSE,
                torque |-> XFin((initialOmega - adjustedOmega) \div 2)]
          ELSE [Fx |-> FxF, Fy |-> FyF, thrust |-> thrust, coast |-> ~powered,
                torque |-> torqueF]

\* the forces of one step with the moments calculateLiftMoment,
\* calculateDragMoment, calculateWindMoment and calculateFinMoment give
Forces(s, in, e, p, velocity, w, adjustedOmega, onLaunchRail) ==
  ForcesOfMoments(s, in, e, p, velocity, w, adjustedOmega, onLaunchRail,
                  Moments(in.rocketParams, e, velocity, adjustedOmega,
                          Atan2(s.prev_vx, s.prev_vy), w))

\* The launch angles, in degrees, for which Math.sqrt(x * x + y * y) of the
\* rail end x = L * Math.sin(omega), y = L * Math.cos(omega) is a double below
\* L = launchRailLength, as IEEE-754 double arithmetic gives for L = 1 and
\* whole angles up to 45 degrees
RailEndRoundsBelow(angle) == Abs(angle) \in { 3, 4, 6, 7, 10, 18, 24, 29, 35, 40 }

\* distanceFromStart = Math.sqrt(x * x + y * y).  x and y are held to 0.1 mm,
\* too coarse to decide distanceFromStart < launchRailLength for a rocket the
\* rail branch has placed: s.railDistance keeps the distance that branch
\* computed x and y from (-1 after any other step)
DistanceFromStart(s, in, e) ==
  IF s.railDistance < 0 THEN Hypot(s.x, s.y)
  ELSE IF s.railDistance = e.launchRailLength /\ RailEndRoundsBelow(in.angle)
       THEN s.railDistance - 1
       ELSE s.railDistance

\* lines 1576-1605: the next value of the local variables and the sample
\* pushed to data, once the step's velocity and position are known
LoopPush(s, in, e, p, onLaunchRail, velocity, effectiveWindSpeed, deflection, f, u, a, omega, currentSpeed, railDistance, vx, vy, x, y) ==
  LET ax == Acceleration(f.Fx, in.rocketParams.weight)
      ay == Acceleration(f.Fy, in.rocketParams.weight)
      thrustEndNow == f.coast /\ ~s.thrustEndFlag
      thrustEndFlag == s.thrustEndFlag \/ f.coast
      \* MAX_ANGULAR_VELOCITY = 5
      angularVelocity == Max(-500000, Min(500000, u.angularVelocity))
      kp1 == IF thrustEndNow
             THEN [p.keyPoints EXCEPT !.thrustEnd = [time |-> s.time, height |-> s.y, speed |-> p.vy]]
             ELSE p.keyPoints
      kp2 == IF y > s.maxHeight
             THEN [kp1 EXCEPT !.maxHeight = [time |-> s.time, height |-> y, speed |-> vy]]
             ELSE kp1
      finDeflection == deflection.v
      omegaDegrees == RadiansToMilliDegrees(omega)
  IN [threw |-> deflection = Throw,
      \* the variables declared in the loop body, in the order of the code
      locals |-> [velocity |-> velocity, effectiveWindSpeed |-> effectiveWindSpeed,
                  finDeflection |-> finDeflection, thrust |-> f.thrust,
                  Fx |-> f.Fx, Fy |-> f.Fy, torque |-> f.torque, ax |-> ax, ay |-> ay,
                  angleChangePerDt2 |-> u.angleChangePerDt2, omega |-> omega],
      st |-> [time |-> TimePlusDt(s.time), x |-> x, y |-> y, vx |-> vx, vy |-> vy,
              prev_vx |-> s.prev_vx, prev_vy |-> s.prev_vy,
              omega |-> omega, prevOmega |-> a.omega,
              angularVelocity |-> angularVelocity,
              angularAcceleration |-> u.angularAcceleration,
              isParachuteEjected |-> p.isParachuteEjected,
              isParachuteActive |-> p.isParachuteActive,
              parachuteDeploymentProgress |-> p.parachuteDeploymentProgress,
              finDeflection |-> finDeflection,
              maxAngleChangePerDt2 |-> a.maxAngleChangePerDt2,
              isAngleStableOK |-> a.isAngleStableOK,
              thrustEndFlag |-> thrustEndFlag,
              angleChangeBuffer |-> a.angleChangeBuffer,
              stepCounter |-> u.stepCounter, totalTorque |-> u.totalTorque,
              angleChangePerDt2 |-> u.angleChangePerDt2,
              maxHeight |-> Max(s.maxHeight, y),
              maxSpeed |-> Max(s.maxSpeed, currentSpeed),
              maxDistance |-> Max(s.maxDistance, Abs(x)),
              maxFinDeflection |-> Max(s.maxFinDeflection, finDeflection),
              railDistance |-> IF onLaunchRail /\ in.angle # 0 THEN railDistance ELSE -1,
              keyPoints |-> kp2],
      sample |-> [time |-> s.time, physicsX |-> x, physicsY |-> y, height |-> y,
                  vx |-> vx, vy |-> vy, ax |-> ax, ay |-> ay,
                  speedMagnitude |-> Hypot(vx, vy),
                  accelerationMagnitude |-> Hypot(ax, ay),
                  angularVelocity |-> angularVelocity,
                  angularAcceleration |-> u.angularAcceleration,
                  isParachuteEjected |-> p.isParachuteEjected,
                  isParachuteActive |-> p.isParachuteActive,
                  parachuteDeploymentProgress |-> p.parachuteDeploymentProgress,
                  omega |-> omega, omegaDegrees |-> omegaDegrees,
                  torque |-> f.torque, angleChangePerDt2 |-> a.totalAngleChange,
                  horizontalDistance |-> Abs(x), finDeflection |-> finDeflection,
                  angleDeviationDegrees |-> omegaDegrees - in.angle * 1000,
                  effectiveWindSpeed |-> effectiveWindSpeed,
                  isThrustActive |-> ~TimeLess(e.thrustEndTime, s.time)]]

\* lines 1542-1558: the position update, on the launch rail and off it
LoopPosition(s, in, e, p, onLaunchRail, velocity, effectiveWindSpeed, deflection, f, u, a, omega, currentSpeed, railDistance, vx, vy) ==
  LoopPush(s, in, e, p, onLaunchRail, velocity, effectiveWindSpeed, deflection, f, u, a,
           omega, currentSpeed, railDistance, vx, vy,
           IF onLaunchRail
           THEN (IF in.angle = 0 THEN 0 ELSE SMulDiv(railDistance, Sin(omega), 10000))
           ELSE s.x + Rdiv(vx, 5),
           IF onLaunchRail
           THEN (IF in.angle = 0 THEN s.y + Rdiv(vy, 5)
                 ELSE SMulDiv(railDistance, Cos(omega), 10000))
           ELSE s.y + Rdiv(vy, 5))

\* lines 1529-1532: the speed limit MAX_SPEED = 100
LoopSpeedLimit(s, in, e, p, distanceFromStart, velocity, effectiveWindSpeed, deflection, f, u, a, omega, vx1, vy1, currentSpeed) ==
  LoopPosition(s, in, e, p, distanceFromStart < e.launchRailLength, velocity,
               effectiveWindSpeed, deflection, f, u, a, omega, currentSpeed,
               Min(distanceFromStart + Rdiv(velocity, 5), e.launchRailLength),
               IF currentSpeed > 100000 THEN SMulDiv(vx1, 100000, currentSpeed) ELSE vx1,
               IF currentSpeed > 100000 THEN SMulDiv(vy1, 100000, currentSpeed) ELSE vy1)

\* line 1529: currentSpeed = Math.sqrt(vx * vx + vy * vy) of the new velocity
LoopVelocity(s, in, e, p, distanceFromStart, velocity, effectiveWindSpeed, deflection, f, u, a, omega, vx1, vy1) ==
  LoopSpeedLimit(s, in, e, p, distanceFromStart, velocity, effectiveWindSpeed, deflection,
                 f, u, a, omega, vx1, vy1, Hypot(vx1, vy1))

\* variant of LoopEnhancedControl that blends in every step
LoopEnhancedControlAlways(s, in, e, p, distanceFromStart, velocity, effectiveWindSpeed, deflection, f, u, a) ==
  LoopVelocity(s, in, e, p, distanceFromStart, velocity, effectiveWindSpeed, deflection,
               f, u, a,
               EnhancedControl(a.omega, p.vx, p.vy, velocity, effectiveWindSpeed,
                               s.thrustEndFlag \/ f.coast, e.useWindAngleLimitation),
               p.vx + Rdiv(Acceleration(f.Fx, in.rocketParams.weight), 50),
               p.vy + Rdiv(Acceleration(f.Fy, in.rocketParams.weight), 50))

\* lines 1423-1526: the enhanced attitude control, off the rail and before the
\* parachute is ejected, and the velocity update vx += ax * dt, vy += ay * dt
LoopEnhancedControl(s, in, e, p, distanceFromStart, velocity, effectiveWindSpeed, deflection, f, u, a) ==
  LoopVelocity(s, in, e, p, distanceFromStart, velocity, effectiveWindSpeed, deflection,
               f, u, a,
               IF e.useEnhancedAttitudeControl /\ ~(distanceFromStart < e.launchRailLength)
                  /\ ~p.isParachuteEjected
               THEN EnhancedControl(a.omega, p.vx, p.vy, velocity, effectiveWindSpeed,
                                    s.thrustEndFlag \/ f.coast, e.useWindAngleLimitation)
               ELSE a.omega,
               p.vx + Rdiv(Acceleration(f.Fx, in.rocketParams.weight), 50),
               p.vy + Rdiv(Acceleration(f.Fy, in.rocketParams.weight), 50))

\* lines 1271-1420: the angle update and the physical attitude
LoopAttitude(s, in, e, p, distanceFromStart, velocity, effectiveWindSpeed, deflection, f, u) ==
  LoopEnhancedControl(s, in, e, p, distanceFromStart, velocity, effectiveWindSpeed,
                      deflection, f, u,
                      PhysicalAttitude(s, u, p.isParachuteEjected, s.thrustEndFlag \/ f.coast))

\* lines 1205-1349: thrustEndFlag and the accumulation of the torque
LoopAngleUpdate(s, in, e, p, distanceFromStart, velocity, effectiveWindSpeed, deflection, f) ==
  LoopAttitude(s, in, e, p, distanceFromStart, velocity, effectiveWindSpeed, deflection, f,
               AngleUpdate(s, e, f.torque, p.isParachuteEjected, s.thrustEndFlag \/ f.coast))

\* lines 1023-1268: the fin deflection and the forces of the step
LoopForces(s, in, e, p, distanceFromStart, velocity, effectiveWindSpeed) ==
  LoopAngleUpdate(s, in, e, p, distanceFromStart, velocity, effectiveWindSpeed,
                  IF velocity > 5000
                  THEN calculateFinDeflection(XFin(velocity), e.finMaterial,
                         [finHeight |-> in.rocketParams.finHeight,
                          finBaseWidth |-> in.rocketParams.finBaseWidth,
                          finTipWidth |-> in.rocketParams.finTipWidth,
                          finThickness |-> in.rocketParams.finThickness,
                          finSweepLength |-> in.rocketParams.finSweepLength],
                         XFin(s.angleChangePerDt2))
                  ELSE XFin(0),
                  Forces(s, in, e, p, velocity, effectiveWindSpeed,
                         s.omega + (IF IsSpecialAngle(in.angle)
                                    THEN 1000 * (IF in.angle < 0 THEN -1 ELSE 1) ELSE 0),
                         distanceFromStart < e.launchRailLength))

\* lines 980-1012: the parachute, the distance from the start, the speed and
\* the wind of the step
LoopStart(s, in, e) ==
  LoopForces(s, in, e, ParachuteUpdate(s, e), DistanceFromStart(s, in, e),
             Hypot(s.prev_vx, s.prev_vy),
             calculateWindSpeedAtHeight(in.windSpeed, HeightOf(s.y), in.windProfile))

\* one pass through the body of the while loop: the next value of the local
\* variables and the sample pushed to data
LoopBody(s0, in, e) ==
  LoopStart([s0 EXCEPT !.prev_vx = s0.vx, !.prev_vy = s0.vy], in, e)

(***************************************************************************)
(* Runs of calculateFlightPath on arguments from small sets                 *)
(***************************************************************************)
\* number of motors, launch angles and wind speeds tried, out of Motors,
\* Angles and Winds
MaxMotors == 3

MaxAngles == 2

MaxWinds == 1

Motors == << <<"C6", 5>>, <<"B6", 0>>, <<"A8", 3>> >>

\* launch angles in degrees
Angles == << 0, 30, 4 >>

\* wind speeds in mm/s
Winds == << 0, 3000 >>

Weights == { 100, 200 }

\* the config argument: absent, or with the enhanced attitude control off
NoConfig == <<>>

ConfigEnhancedOff == << [enhancedAttitudeControl |-> <<FALSE>>, windAngleLimitation |-> <<>>] >>

RocketPreset ==
  [noseShape |-> "cone", noseHeight |-> 100, bodyHeight |-> 400, bodyWidth |-> 40,
   finHeight |-> 60, finBaseWidth |-> 80, finTipWidth |-> 40, finSweepLength |-> 20,
   finThickness |-> 2, finMaterial |-> "balsa", finCount |-> 3, weight |-> 200,
   centerOfGravity |-> 250, selectedMotor |-> <<"C6", 5>>, selectedParachute |-> <<"phi", 300>>]

\* the arguments of the runs: every motor, weight, angle and wind without a
\* config, and the vertical launches in still air with the control off too
FlightInputs ==
  { [rocketParams |-> [RocketPreset EXCEPT !.weight = weight, !.selectedMotor = Motors[m]],
     angle |-> Angles[a], windSpeed |-> Winds[w],
     windProfile |-> IF Winds[w] = 0 THEN "uniform" ELSE "open",
     config |-> config] :
      weight \in Weights, m \in 1..Min(MaxMotors, Len(Motors)),
      a \in 1..Min(MaxAngles, Len(Angles)), w \in 1..Min(MaxWinds, Len(Winds)),
      config \in { NoConfig } }
  \cup
  { [rocketParams |-> [RocketPreset EXCEPT !.weight = weight, !.selectedMotor = Motors[m]],
     angle |-> 0, windSpeed |-> 0, windProfile |-> "uniform", config |-> ConfigEnhancedOff] :
      weight \in Weights, m \in 1..Min(MaxMotors, Len(Motors)) }

\* no call of a pure function is under way during a flight
NoCall == [fn |-> "none", arg |-> <<>>, ret |-> Pending]

\* calculateFlightPath has been called and stands before its loop
Init ==
  /\ inp \in FlightInputs
  /\ env = FlightConstants(inp.rocketParams, inp.config)
  /\ st = InitialState(inp.angle)
  /\ data = <<>>
  /\ pc = "loop"
  /\ call = NoCall

\* variant of LoopCondition without the parentheses around the || operands
LoopConditionNoParentheses(s) ==
  s.y >= 0 \/ (TimeLess(s.time, TimeTenth) /\ TimeLess(s.time, MAX_TIME))

\* while ((y >= 0 || time < 0.1) && time < MAX_TIME)
LoopCondition(s) ==
  (s.y >= 0 \/ TimeLess(s.time, TimeTenth)) /\ TimeLess(s.time, MAX_TIME)

\* one iteration of the loop, with the sample it records and time += dt; an
\* exception of calculateFinDeflection leaves the function
Step ==
  /\ pc = "loop"
  /\ LoopCondition(st)
  /\ \E r \in { LoopBody(st, inp, env) } :
       IF r.threw
       THEN pc' = "threw" /\ UNCHANGED <<st, data>>
       ELSE pc' = pc /\ st' = r.st /\ data' = Append(data, r.sample)
  /\ UNCHANGED <<inp, env, call>>

\* the loop condition fails: the loop is left and the result returned
Finish ==
  /\ pc = "loop"
  /\ ~LoopCondition(st)
  /\ pc' = "done"
  /\ UNCHANGED <<inp, env, st, data, call>>

Next == Step \/ Finish

Spec == Init /\ [][Next]_vars

\* The same loop with the log projected on its time field: each iteration
\* appends the sample's time and drops its other fields.  The locals in st
\* are those of Step, so the runs have the lengths and the times of Spec's.
StepTimes ==
  /\ pc = "loop"
  /\ LoopCondition(st)
  /\ \E r \in { LoopBody(st, inp, env) } :
       IF r.threw
       THEN pc' = "threw" /\ UNCHANGED <<st, data>>
       ELSE pc' = pc /\ st' = r.st /\ data' = Append(data, [time |-> r.sample.time])
  /\ UNCHANGED <<inp, env, call>>

NextTimes == StepTimes \/ Finish

SpecTimes == Init /\ [][NextTimes]_vars

(***************************************************************************)
(* Properties of the flight integrator, under Spec and SpecTimes            *)
(***************************************************************************)
\* the latest sample
LastSample == data[Len(data)]

\* C1 as stated: a run records at most 1000 samples and no sample has a time
\* of 20 s or more.
C1_AtMost1000Samples ==
  /\ Len(data) <= 1000
  /\ \A j \in 1..Len(data) : TimeLess(data[j].time, MAX_TIME)

\* C1: the loop terminates: a step is executed only while (y >= 0 or
\* time < 0.1) and time < 20, every iteration appends one sample, and a run
\* never holds more than 1001 samples, none with a time of 20 s or more, so
\* that the loop is left after at most 1001 iterations.
C1_LoopTerminates ==
  /\ [](Len(data) <= 1001 /\ \A j \in 1..Len(data) : TimeLess(data[j].time, MAX_TIME))
  /\ [][/\ Len(data') > Len(data) =>
             /\ st.y >= 0 \/ TimeLess(st.time, TimeTenth)
             /\ TimeLess(st.time, MAX_TIME)
        /\ (pc = "loop" /\ pc' = "loop") => Len(data') = Len(data) + 1
        /\ pc # "loop" => pc' = pc]_vars

\* C1 witness: a run that was still aloft at the cap has ended with 1001
\* samples, the last one taken at the 1000th accumulated time step
C1_Witness ==
  /\ pc = "done"
  /\ Len(data) = 1001
  /\ LastSample.time.i = 1000
  /\ st.y >= 0

\* C2 as stated: every step appends exactly one sample, leaves the earlier
\* ones as they are, and sample i has the time i*dt, so that the times are
\* strictly increasing.
C2_SampleTimeIsIndexTimesDt ==
  [][IF pc = "loop" /\ pc' = "loop"
     THEN /\ Len(data') = Len(data) + 1
          /\ SubSeq(data', 1, Len(data)) = data
          /\ data'[Len(data')].time = TimeOfProduct(Len(data))
     ELSE data' = data]_vars

\* C2: every step appends exactly one sample and leaves the earlier ones as
\* they are; the time of a sample is larger than that of the sample before
\* it, and sample i has the time obtained by adding dt i times, which is
\* within 10^-12 s of i*dt.
C2_AppendOnlyLog ==
  [][IF pc = "loop" /\ pc' = "loop"
     THEN /\ Len(data') = Len(data) + 1
          /\ SubSeq(data', 1, Len(data)) = data
          /\ data'[Len(data')].time.i = Len(data)
          /\ Abs(data'[Len(data')].time.e - TimeOfProduct(Len(data)).e) <= 288230
          /\ Len(data) > 0 => TimeLess(LastSample.time, data'[Len(data')].time)
     ELSE data' = data]_vars

\* C2 witness: a log whose seventh sample has a time that is not the double
\* 6 * dt
C2_Witness ==
  /\ Len(data) >= 7
  /\ data[7].time.i = 6
  /\ data[7].time # TimeOfProduct(6)

\* C3: a finished run with zero wind and zero launch angle has reached a
\* strictly positive maximum height, whatever the thrust samples of its motor.
C3_VerticalCalmRunRises ==
  (pc = "done" /\ inp.angle = 0 /\ inp.windSpeed = 0) => st.maxHeight > 0

\* C4: in every sample the parachute is ejected exactly when the time has
\* reached burn duration + ejection delay and fully deployed exactly when it
\* has reached that ejection time + 1.0 s, a deployed parachute is an ejected
\* one, and neither flag goes from true to false between consecutive samples.
C4_ParachuteMovesForward ==
  LET burnDuration == TimeOfProduct(Len(MOTOR_THRUST_DATA[inp.rocketParams.selectedMotor]))
      ejectionTime == TimePlusSeconds(burnDuration, inp.rocketParams.selectedMotor[2])
      activeTime == TimePlusSeconds(ejectionTime, 1)
  IN pc # "idle" =>
       /\ \A j \in 1..Len(data) :
            /\ data[j].isParachuteEjected <=> ~TimeLess(data[j].time, ejectionTime)
            /\ data[j].isParachuteActive <=> ~TimeLess(data[j].time, activeTime)
            /\ data[j].isParachuteActive => data[j].isParachuteEjected
       /\ \A j \in 1..(Len(data) - 1) :
            /\ data[j].isParachuteEjected => data[j + 1].isParachuteEjected
            /\ data[j].isParachuteActive => data[j + 1].isParachuteActive

\* C4 witness: a run whose samples go through the three parachute states
C4_Witness ==
  /\ Len(data) > 2
  /\ ~data[1].isParachuteEjected
  /\ \E j \in 1..Len(data) : data[j].isParachuteEjected /\ ~data[j].isParachuteActive
  /\ LastSample.isParachuteActive

\* C5: in the step where the parachute becomes fully deployed the new
\* velocity is 0.1 times the old one plus that step's acceleration times dt;
\* in every other step it is the old velocity plus the acceleration times dt
\* (scaled down when its magnitude exceeds MAX_SPEED), and a parachute that is
\* fully deployed stays so, so that the reduction happens once in a run.
C5_VelocityCutOnceAtDeployment ==
  [][(pc = "loop" /\ pc' = "loop") =>
       LET deployedNow == st'.isParachuteActive /\ ~st.isParachuteActive
           vx0 == IF deployedNow THEN Rdiv(st.vx, 10) ELSE st.vx
           vy0 == IF deployedNow THEN Rdiv(st.vy, 10) ELSE st.vy
           vx1 == vx0 + Rdiv(data'[Len(data')].ax, 50)
           vy1 == vy0 + Rdiv(data'[Len(data')].ay, 50)
       IN /\ st.isParachuteActive => st'.isParachuteActive
          /\ Hypot(vx1, vy1) <= 100000 => (st'.vx = vx1 /\ st'.vy = vy1)
          /\ Hypot(vx1, vy1) > 100000 =>
               /\ Abs(st'.vx) <= Abs(vx1) /\ Abs(st'.vy) <= Abs(vy1)
               /\ Hypot(st'.vx, st'.vy) >= 99990]_vars

\* C5 witness: the parachute has just become fully deployed in a descent of
\* more than 10 m/s, and the sample shows less than a fifth of that speed
C5_Witness ==
  /\ Len(data) > 1
  /\ LastSample.isParachuteActive
  /\ ~data[Len(data) - 1].isParachuteActive
  /\ data[Len(data) - 1].vy < -10000
  /\ LastSample.speedMagnitude * 5 < data[Len(data) - 1].speedMagnitude

\* C6: if in some step after thrust burnout and before parachute ejection
\* the sum of the per-step attitude changes held in the sliding window
\* exceeds 10 degrees in magnitude, the run is marked unstable.
C6_WindowMarksUnstable ==
  pc # "idle" =>
    \A j \in 1..Len(data) :
      (/\ ~TimeLess(data[j].time, env.thrustEndTime)
       /\ ~data[j].isParachuteEjected
       /\ Abs(data[j].angleChangePerDt2) > 10000)
      => ~st.isAngleStableOK

\* C6 witness: a coasting sample with a window sum above 10 degrees in a run
\* whose earlier samples were all within the limit, now marked unstable
C6_Witness ==
  /\ Len(data) > 1
  /\ ~TimeLess(LastSample.time, env.thrustEndTime)
  /\ ~LastSample.isParachuteEjected
  /\ Abs(LastSample.angleChangePerDt2) > 10000
  /\ \A j \in 1..(Len(data) - 1) : Abs(data[j].angleChangePerDt2) <= 10000
  /\ ~st.isAngleStableOK

(***************************************************************************)
(* Calls of the geometry functions on parameters from small sets: rockets   *)
(* with positive lengths, and the preset with one required field missing    *)
(***************************************************************************)
\* number of fin heights and of body widths tried, out of FinHeights and
\* BodyWidths
MaxFinHeights == 3

MaxBodyWidths == 3

\* in mm
FinHeights == << 60, 30, 5, 120 >>

BodyWidths == << 40, 20, 100, 60 >>

FinOutlines ==
  { [finBaseWidth |-> 80, finTipWidth |-> 40, finSweepLength |-> 20],
    [finBaseWidth |-> 50, finTipWidth |-> 50, finSweepLength |-> 10],
    [finBaseWidth |-> 40, finTipWidth |-> 60, finSweepLength |-> 30] }

GeometryParams ==
  { [RocketPreset EXCEPT !.noseShape = noseShape, !.finCount = finCount,
                         !.bodyWidth = BodyWidths[w], !.finHeight = FinHeights[h],
                         !.finBaseWidth = outline.finBaseWidth,
                         !.finTipWidth = outline.finTipWidth,
                         !.finSweepLength = outline.finSweepLength] :
      noseShape \in { "cone", "parabola", "ogive" }, finCount \in { 3, 4 },
      w \in 1..Min(MaxBodyWidths, Len(BodyWidths)),
      h \in 1..Min(MaxFinHeights, Len(FinHeights)), outline \in FinOutlines }

\* the preset without one of the fields calculateProjectedArea requires
MissingFieldParams ==
  { [f \in (DOMAIN RocketPreset) \ { missing } |-> RocketPreset[f]] :
      missing \in RequiredNumbers }

\* the config argument: absent, with one option set, with both set
Configs ==
  { NoConfig, ConfigEnhancedOff,
    << [enhancedAttitudeControl |-> <<>>, windAngleLimitation |-> <<FALSE>>] >>,
    << [enhancedAttitudeControl |-> <<TRUE>>, windAngleLimitation |-> <<TRUE>>] >> }

\* call.arg is the caller's rocketParams object, call.config the config
\* argument of calculateFlightPath, call.ret the value returned
GeometryCalls ==
  { [fn |-> f, arg |-> rp, ret |-> Pending] :
      f \in { "calculateProjectedArea", "calculateVolume", "calculateCenterOfPressure" },
      rp \in GeometryParams \cup MissingFieldParams }
  \cup
  { [fn |-> "calculateFlightPath", arg |-> rp, config |-> config, ret |-> Pending] :
      rp \in GeometryParams, config \in Configs }

InitGeometry == FlightIdle /\ call \in GeometryCalls

CallProjectedArea ==
  /\ UNCHANGED flightVars
  /\ call.fn = "calculateProjectedArea"
  /\ call.ret = Pending
  /\ call' = [call EXCEPT !.ret = calculateProjectedArea(call.arg)]

CallVolume ==
  /\ UNCHANGED flightVars
  /\ call.fn = "calculateVolume"
  /\ call.ret = Pending
  /\ call' = [call EXCEPT !.ret = calculateVolume(call.arg)]

CallCenterOfPressure ==
  /\ UNCHANGED flightVars
  /\ call.fn = "calculateCenterOfPressure"
  /\ call.ret = Pending
  /\ call' = [call EXCEPT !.ret = calculateCenterOfPressure(call.arg)]

\* rocketParams.finCp = centerOfPressure.finCp: the object with the property
\* finCp added, or overwritten when it has one
SetFinCp(rp, centerOfPressure) ==
  [f \in (DOMAIN rp) \cup { "finCp" } |-> IF f = "finCp" THEN centerOfPressure.finCp ELSE rp[f]]

\* export const ENHANCED_ATTITUDE_CONTROL of RocketPhysics.jsx
ENHANCED_ATTITUDE_CONTROL_v0 == FALSE

\* The first calculateFlightPath of RocketPhysics.jsx (line 677), as far as
\* its options go: config is not read, the enhanced attitude control is
\* gated by the module's constant and the wind-angle limitation by nothing.
\* call.ret keeps the two gates of the loop
CallFlightPath_v0 ==
  /\ UNCHANGED flightVars
  /\ call.fn = "calculateFlightPath"
  /\ call.ret = Pending
  /\ call' = [call EXCEPT !.ret = [useEnhancedAttitudeControl |-> ENHANCED_ATTITUDE_CONTROL_v0,
                                   useWindAngleLimitation |-> TRUE]]

\* The second calculateFlightPath of RocketPhysics.jsx (line 1393), as far
\* as its options and the caller's object go.  The file declares no
\* WIND_ANGLE_LIMITATION: reading it, when config gives no
\* windAngleLimitation, throws a ReferenceError before anything else is
\* done.  Otherwise the run makes its one assignment to rocketParams before
\* the loop; call.ret keeps the two gates of the loop
CallFlightPath_v1 ==
  /\ UNCHANGED flightVars
  /\ call.fn = "calculateFlightPath"
  /\ call.ret = Pending
  /\ IF OptionalField(call.config, "windAngleLimitation") = <<>>
     THEN call' = [call EXCEPT !.ret = Throw]
     ELSE call' = [call EXCEPT
            !.arg = SetFinCp(call.arg, calculateCenterOfPressure(call.arg)),
            !.ret = [useEnhancedAttitudeControl |->
                       Nullish(OptionalField(call.config, "enhancedAttitudeControl"),
                               ENHANCED_ATTITUDE_CONTROL_v0),
                     useWindAngleLimitation |-> call.config[1].windAngleLimitation[1]]]

NextGeometry ==
  CallProjectedArea \/ CallVolume \/ CallCenterOfPressure \/ CallFlightPath_v0 \/ CallFlightPath_v1

SpecGeometry == InitGeometry /\ [][NextGeometry]_vars

(***************************************************************************)
(* Properties of the geometry functions, under SpecGeometry                 *)
(***************************************************************************)
\* positive numeric lengths and a fin count of 3 or 4
ValidParameters(rp) ==
  /\ HasNumbers(rp, RequiredNumbers)
  /\ \A f \in RequiredNumbers : rp[f] > 0
  /\ rp.finCount \in { 3, 4 }

\* C11: for all valid RocketParameters (positive lengths, fin count 3 or 4)
\* every area calculateProjectedArea returns (frontal, side, single fin,
\* total fin, angled) is non-negative and every volume calculateVolume
\* returns is non-negative.
C11_AreasAndVolumesNonNegative ==
  (call.ret # Pending /\ ValidParameters(call.arg)) =>
    /\ call.fn = "calculateProjectedArea" =>
          \A a \in { "frontalArea", "sideArea", "finArea", "totalFinArea", "angledArea" } :
            XGe(call.ret[a], XFin(0))
    /\ call.fn = "calculateVolume" =>
          \A v \in { "bodyVolume", "noseVolume", "totalVolume" } : XGe(call.ret[v], XFin(0))

\* C12: called on RocketParameters with a required numeric field missing,
\* calculateProjectedArea, calculateVolume and calculateCenterOfPressure
\* return a result whose fields are all 0, and do not throw.
C12_MissingFieldGivesZeroedResult ==
  (call.ret # Pending /\ ~HasNumbers(call.arg, RequiredNumbers)) =>
    /\ call.ret # Throw
    /\ \A a \in DOMAIN call.ret : call.ret[a] = XFin(0)

(***************************************************************************)
(* Properties of the torque and the attitude update, under Spec             *)
(***************************************************************************)
\* the torque a step adds to the accumulator when a step whose moments are
\* not finite counts as zero
TorqueOrZero(torque) == IF XIsFinite(torque) THEN torque.v ELSE 0

\* the steps since the latest attitude update: the last stepCounter samples
StepsSinceUpdate == (Len(data) - st.stepCounter + 1)..Len(data)

\* C13: a step whose moment computation yields NaN or Infinity does not end
\* the run and adds zero to the torque accumulator, which therefore holds the
\* sum of the torques of the other steps since the latest attitude update
C13_FailedTorqueStepCountsZero ==
  (pc = "loop" /\ st.stepCounter <= Len(data)) =>
    /\ \A j \in StepsSinceUpdate : XIsFinite(data[j].torque)
    /\ st.totalTorque = XFin(SumSeq([j \in 1..st.stepCounter |->
                                      TorqueOrZero(data[Len(data) - st.stepCounter + j].torque)]))

\* C14: a run of calculateFlightPath leaves the caller's rocketParams object
\* as it was, no field added and none modified (under SpecGeometry call.arg
\* is that object, under Spec inp.rocketParams)
C14_RunLeavesParametersUnchanged ==
  [][call'.arg = call.arg /\ inp' = inp]_vars

\* the value an option of config takes: the caller's, or the default
OptionOf(config, field, default) == Nullish(OptionalField(config, field), default)

\* C15: enhancedAttitudeControl and windAngleLimitation take the value of the
\* caller's config, an explicit false included, and the module's default when
\* config is absent or the option unset; that value gates the loop: with the
\* enhanced control off, omega is what the physical attitude update left
C15_OptionsFollowConfig ==
  /\ (call.fn = "calculateFlightPath" /\ call.ret # Pending) =>
       /\ call.ret # Throw
       /\ call.ret.useEnhancedAttitudeControl
            = OptionOf(call.config, "enhancedAttitudeControl", ENHANCED_ATTITUDE_CONTROL_v0)
       /\ (OptionalField(call.config, "windAngleLimitation") # <<>> =>
             call.ret.useWindAngleLimitation = call.config[1].windAngleLimitation[1])
  /\ pc = "loop" =>
       /\ env.useEnhancedAttitudeControl
            = OptionOf(inp.config, "enhancedAttitudeControl", ENHANCED_ATTITUDE_CONTROL)
       /\ env.useWindAngleLimitation
            = OptionOf(inp.config, "windAngleLimitation", WIND_ANGLE_LIMITATION)
       /\ (OptionalField(inp.config, "enhancedAttitudeControl") = <<FALSE>> =>
             st.omega = st.prevOmega)

\* the step about to be taken finds the rocket on the launch rail:
\* distanceFromStart < launchRailLength
OnLaunchRail == DistanceFromStart(st, inp, env) < env.launchRailLength

\* C16: a step that finds the rocket on the launch rail has torque 0 and
\* leaves omega as it was, before and after the end of the thrust and under
\* the parachute
C16_OnRailNoTorqueNoTurn ==
  [][(pc = "loop" /\ OnLaunchRail /\ Len(data') = Len(data) + 1) =>
       /\ data'[Len(data')].torque = XFin(0)
       /\ st'.omega = st.omega]_vars

\* C17: the torque of every step, as recorded in its sample, is a number of
\* [-1, 1] N.m, and a non-zero one is at least the floor 0.0001 in magnitude
C17_StepTorqueWithinUnit ==
  \A j \in 1..Len(data) :
    /\ XIsFinite(data[j].torque)
    /\ Abs(data[j].torque.v) <= 100000000
    /\ data[j].torque.v # 0 => Abs(data[j].torque.v) >= 10000

(***************************************************************************)
(* Exact IEEE-754 double arithmetic for the speed limit.  A natural below   *)
(* 2^112 is held as eight digits of base 2^14, least significant first; a   *)
(* double other than 0 is s * m * 2^e with s = 1 or -1 and                  *)
(* 2^52 <= m < 2^53, and 0 has m = 0.                                       *)
(***************************************************************************)
Limb == 2^14

\* the digits of n, 0 <= n < 2^31
BigOfInt(n) == << n % Limb, (n \div Limb) % Limb, n \div (Limb * Limb), 0, 0, 0, 0, 0 >>

BigZero == BigOfInt(0)

\* the digits of the number whose digits with carries pending are c
BigCarry(c) ==
  LET k[i \in 0..8] == IF i = 0 THEN 0 ELSE (c[i] + k[i - 1]) \div Limb
  IN << (c[1] + k[0]) % Limb, (c[2] + k[1]) % Limb, (c[3] + k[2]) % Limb,
        (c[4] + k[3]) % Limb, (c[5] + k[4]) % Limb, (c[6] + k[5]) % Limb,
        (c[7] + k[6]) % Limb, (c[8] + k[7]) % Limb >>

BigAdd(x, y) ==
  BigCarry(<< x[1] + y[1], x[2] + y[2], x[3] + y[3], x[4] + y[4],
              x[5] + y[5], x[6] + y[6], x[7] + y[7], x[8] + y[8] >>)

\* the sum of the digit products of weight Limb^(k - 1)
BigColumn(x, y, k) ==
  LET s[i \in 0..k] == IF i = 0 THEN 0 ELSE s[i - 1] + x[i] * y[k + 1 - i]
  IN s[k]

\* x * y, for a product below 2^112 and a factor below 2^56
BigMul(x, y) ==
  BigCarry(<< BigColumn(x, y, 1), BigColumn(x, y, 2), BigColumn(x, y, 3),
              BigColumn(x, y, 4), BigColumn(x, y, 5), BigColumn(x, y, 6),
              BigColumn(x, y, 7), BigColumn(x, y, 8) >>)

\* the index of the leading digit of x # 0
BigTop(x) == CHOOSE i \in 1..8 : x[i] # 0 /\ \A j \in (i + 1)..8 : x[j] = 0

\* the number of bits of x # 0
BigBits(x) == 14 * (BigTop(x) - 1) + Bits(x[BigTop(x)])

BigLess(x, y) ==
  /\ x # y
  /\ LET i == CHOOSE i \in 1..8 : x[i] # y[i] /\ \A j \in (i + 1)..8 : x[j] = y[j]
     IN x[i] < y[i]

\* 2^k, 0 <= k < 112
BigPow2Digit(k, i) == IF i = k \div 14 + 1 THEN 2^(k % 14) ELSE 0

BigPow2(k) ==
  << BigPow2Digit(k, 1), BigPow2Digit(k, 2), BigPow2Digit(k, 3), BigPow2Digit(k, 4),
     BigPow2Digit(k, 5), BigPow2Digit(k, 6), BigPow2Digit(k, 7), BigPow2Digit(k, 8) >>

\* x * 2^k and floor(x / 2^k)
BigShl(x, k) == BigMul(x, BigPow2(k))

BigDigit(x, i) == IF i <= 8 THEN x[i] ELSE 0

BigShrDigit(x, k, i) ==
  BigDigit(x, i + k \div 14) \div 2^(k % 14)
    + (BigDigit(x, i + k \div 14 + 1) % 2^(k % 14)) * 2^(14 - (k % 14))

BigShr(x, k) ==
  << BigShrDigit(x, k, 1), BigShrDigit(x, k, 2), BigShrDigit(x, k, 3), BigShrDigit(x, k, 4),
     BigShrDigit(x, k, 5), BigShrDigit(x, k, 6), BigShrDigit(x, k, 7), BigShrDigit(x, k, 8) >>

\* the quotient floor(num / den), built from bit i downward on top of Q
RECURSIVE BigDivBits(_, _, _, _)
BigDivBits(num, den, Q, i) ==
  IF i < 0 THEN Q
  ELSE CHOOSE r \in { BigDivBits(num, den, IF BigLess(num, BigMul(t, den)) THEN Q ELSE t, i - 1) :
                        t \in { BigAdd(Q, BigPow2(i)) } } : TRUE

\* the root floor(sqrt(n)), built from bit i downward on top of R
RECURSIVE BigSqrtBits(_, _, _)
BigSqrtBits(n, R, i) ==
  IF i < 0 THEN R
  ELSE CHOOSE r \in { BigSqrtBits(n, IF BigLess(n, BigMul(t, t)) THEN R ELSE t, i - 1) :
                        t \in { BigAdd(R, BigPow2(i)) } } : TRUE

FZero == [s |-> 1, m |-> BigZero, e |-> 0]

\* a mantissa that rounding up has carried to 2^53
FCarry(s, m, e) ==
  IF BigBits(m) = 54 THEN [s |-> s, m |-> BigShr(m, 1), e |-> e + 1]
  ELSE [s |-> s, m |-> m, e |-> e]

\* round to nearest, ties to even: q is n without its last cut bits, h is n
\* without its last cut - 1 bits, sticky tells of non-zero bits below n
FRoundCut(s, n, e, sticky, cut, q, h) ==
  IF h[1] % 2 = 1 /\ (sticky \/ BigShl(h, cut - 1) # n \/ q[1] % 2 = 1)
  THEN FCarry(s, BigAdd(q, BigOfInt(1)), e + cut)
  ELSE [s |-> s, m |-> q, e |-> e + cut]

FRoundBits(s, n, e, sticky, bits) ==
  IF bits <= 53 THEN [s |-> s, m |-> BigShl(n, 53 - bits), e |-> e - (53 - bits)]
  ELSE FRoundCut(s, n, e, sticky, bits - 53, BigShr(n, bits - 53), BigShr(n, bits - 54))

\* the double nearest to s * n * 2^e (plus a little, when sticky)
FRound(s, n, e, sticky) ==
  IF n = BigZero THEN FZero ELSE FRoundBits(s, n, e, sticky, BigBits(n))

\* the double of an integer, |n| < 2^31
FOfInt(n) == FRound(IF n < 0 THEN -1 ELSE 1, BigOfInt(Abs(n)), 0, FALSE)

\* x * y
FMul(x, y) == FRound(x.s * y.s, BigMul(x.m, y.m), x.e + y.e, FALSE)

\* x + y for x, y >= 0 with x.e >= y.e
FAddOrdered(x, y) ==
  IF y.m = BigZero \/ x.e - y.e > 58 THEN x
  ELSE FRound(1, BigAdd(BigShl(x.m, x.e - y.e), y.m), y.e, FALSE)

\* x + y for x, y >= 0
FAdd(x, y) ==
  IF x.m = BigZero THEN y
  ELSE IF x.e >= y.e THEN FAddOrdered(x, y) ELSE FAddOrdered(y, x)

\* x / y for x, y > 0, from the 56 to 57 bits q of the quotient
FDivOfQuotient(x, y, q) ==
  FRound(1, q, x.e - y.e - 56, BigMul(q, y.m) # BigShl(x.m, 56))

FDiv(x, y) == FDivOfQuotient(x, y, BigDivBits(BigShl(x.m, 56), y.m, BigZero, 57))

\* Math.sqrt(x) for x > 0, from the root r of x.m * 2^k
FSqrtOfRoot(x, k, r) == FRound(1, r, (x.e - k) \div 2, BigMul(r, r) # BigShl(x.m, k))

FSqrtShifted(x, k) == FSqrtOfRoot(x, k, BigSqrtBits(BigShl(x.m, k), BigZero, 55))

FSqrt(x) ==
  IF x.m = BigZero THEN FZero
  ELSE FSqrtShifted(x, IF (x.e - 57) % 2 = 0 THEN 57 ELSE 58)

\* x > y for x, y >= 0
FGreater(x, y) ==
  /\ x.m # BigZero
  /\ \/ y.m = BigZero
     \/ x.e > y.e
     \/ x.e = y.e /\ BigLess(y.m, x.m)

\* lines 1527-1533 and 1589: currentSpeed, the velocity after the speed
\* limit and the speedMagnitude of the sample
FSpeed(vx, vy) == FSqrt(FAdd(FMul(vx, vx), FMul(vy, vy)))

MAX_SPEED == FOfInt(100)

SpeedSample(vx, vy) == [vx |-> vx, vy |-> vy, speedMagnitude |-> FSpeed(vx, vy)]

SpeedLimitOfFactor(vx, vy, factor) == SpeedSample(FMul(vx, factor), FMul(vy, factor))

\* variant of SpeedLimitOfSpeed without the limit
SpeedLimitNever(vx, vy, currentSpeed) == SpeedSample(vx, vy)

SpeedLimitOfSpeed(vx, vy, currentSpeed) ==
  IF FGreater(currentSpeed, MAX_SPEED)
  THEN SpeedLimitOfFactor(vx, vy, FDiv(MAX_SPEED, currentSpeed))
  ELSE SpeedSample(vx, vy)

SpeedLimit(vx, vy) == SpeedLimitOfSpeed(vx, vy, FSpeed(vx, vy))

(***************************************************************************)
(* The speed limit on velocities from a small set, beside the runs of       *)
(* calculateFlightPath                                                      *)
(***************************************************************************)
\* number of velocity components tried, out of SpeedComponents
MaxSpeedComponents == 8

\* vx and vy after vx += ax * dt, vy += ay * dt, in m/s
SpeedComponents == << 0, 1, -44, 60, 100, 117, -144, 150, 7, 99 >>

SpeedLimitCalls ==
  { [fn |-> "speedLimit", arg |-> [vx |-> FOfInt(SpeedComponents[i]), vy |-> FOfInt(SpeedComponents[j])],
     ret |-> Pending] :
      i, j \in 1..Min(MaxSpeedComponents, Len(SpeedComponents)) }

InitLimits == Init \/ (FlightIdle /\ call \in SpeedLimitCalls)

\* lines 1527-1533 and 1589 on the velocity call.arg
CallSpeedLimit ==
  /\ UNCHANGED flightVars
  /\ call.fn = "speedLimit"
  /\ call.ret = Pending
  /\ call' = [call EXCEPT !.ret = SpeedLimit(call.arg.vx, call.arg.vy)]

NextLimits == Step \/ Finish \/ CallSpeedLimit

SpecLimits == InitLimits /\ [][NextLimits]_vars

(***************************************************************************)
(* Properties of the limits, under SpecLimits                               *)
(***************************************************************************)
\* the double after x > 0
FNextUp(x) == FCarry(x.s, BigAdd(x.m, BigOfInt(1)), x.e)

\* the speed limit has been applied to a velocity
SpeedLimited == call.fn = "speedLimit" /\ call.ret # Pending

\* every sample has |angularVelocity| <= 5 rad/s, and after a coarse attitude
\* update |angularVelocity| <= 3 rad/s
AngularVelocityLimited ==
  pc = "loop" =>
    /\ \A j \in 1..Len(data) : Abs(data[j].angularVelocity) <= 500000
    /\ (st.stepCounter = 0 /\ data # <<>>) => Abs(st.angularVelocity) <= 300000

\* the speed limit leaves each component its sign, and zero when it was zero
DirectionKept ==
  SpeedLimited =>
    /\ call.ret.vx.s = call.arg.vx.s /\ call.ret.vy.s = call.arg.vy.s
    /\ (call.ret.vx.m = BigZero) = (call.arg.vx.m = BigZero)
    /\ (call.ret.vy.m = BigZero) = (call.arg.vy.m = BigZero)

MaxAttitudeTorques == 4

\* torque of a step and torque accumulated before it, in 1e-8 N m
AttitudeTorques == << XFin(0), XNaN, XFin(20000), XFin(-5000000), XFin(300), XFin(7) >>

\* call.arg holds the loop's variables before the lines totalTorque += torque;
\* stepCounter++ and the torque of the step
AngleUpdateCalls ==
  { [fn |-> "angleUpdate",
     arg |-> [totalTorque |-> AttitudeTorques[i], torque |-> AttitudeTorques[j],
              stepCounter |-> stepCounter, angularVelocity |-> angularVelocity,
              angularAcceleration |-> 0, angleChangePerDt2 |-> 0,
              momentOfInertia |-> momentOfInertia],
     ret |-> Pending] :
      i, j \in 1..Min(MaxAttitudeTorques, Len(AttitudeTorques)),
      stepCounter \in { 0, ANGLE_STEPS_PER_UPDATE - 2, ANGLE_STEPS_PER_UPDATE - 1 },
      angularVelocity \in { 0, 250000, -300000 },
      momentOfInertia \in { FlightConstants(RocketPreset, NoConfig).momentOfInertia } }

\* lines 1807-1850 of RocketPhysics.jsx: the torque of the step is added and
\* the steps counted; the update divides the accumulated torque by the count
AngleUpdate_v1(a) ==
  LET totalTorque == XAdd(a.totalTorque, a.torque)
      stepCounter == a.stepCounter + 1
      avgTorque == XScale(totalTorque, 1, stepCounter)
      safeAvgTorque == IF XIsFinite(avgTorque) THEN avgTorque.v ELSE 0
      \* MIN_TORQUE = 0.00001
      effectiveTorque == IF safeAvgTorque # 0 /\ Abs(safeAvgTorque) < 1000
                         THEN Sign(safeAvgTorque) * 1000 ELSE safeAvgTorque
      angularAcceleration == SMulDiv(effectiveTorque, 1000000, a.momentOfInertia)
      angularVelocity == Max(-300000, Min(300000,
                           a.angularVelocity + SMulDiv(angularAcceleration, ANGLE_RESPONSE_DT, 1000)))
      product == SMulDiv(angularVelocity, ANGLE_RESPONSE_DT, 1000)
      \* MIN_ANGLE_CHANGE_PER_DT2 = 0.001
      angleChangePerDt2 == IF angularVelocity # 0 /\ Abs(product) < 100
                           THEN Sign(angularVelocity) * 100 ELSE product
  IN IF stepCounter >= ANGLE_STEPS_PER_UPDATE
     THEN [totalTorque |-> XFin(0), stepCounter |-> 0,
           angularAcceleration |-> angularAcceleration,
           angularVelocity |-> angularVelocity,
           angleChangePerDt2 |-> angleChangePerDt2]
     ELSE [totalTorque |-> totalTorque, stepCounter |-> stepCounter,
           angularAcceleration |-> a.angularAcceleration,
           angularVelocity |-> a.angularVelocity,
           angleChangePerDt2 |-> a.angleChangePerDt2]

\* thresholds of the second calculateFlightPath of RocketPhysics.jsx, in
\* millidegrees
MAX_ANGLE_CHANGE_PER_DT2 == 45000

MAX_ABSOLUTE_ANGLE == 112500

MaxStabilityAngles == 4

\* adjustedOmega in 10^-5 rad: 0, 100, 120, -120 and 200 degrees
StabilityAngles == << 0, 174533, 209440, -209440, 349066 >>

\* call.arg holds what the checks of one step read: the attitude angle, the
\* angle change of the coarse update (10^-5 rad; updated tells whether this
\* step makes the update), the sum of the window (millidegrees) and the two
\* phase flags; both results are true before the step
StabilityCalls ==
  { [fn |-> "stabilityChecks",
     arg |-> [adjustedOmega |-> StabilityAngles[a], updated |-> updated,
              angleChangePerDt2 |-> angleChangePerDt2, totalAngleChange |-> totalAngleChange,
              isParachuteEjected |-> isParachuteEjected, thrustEndFlag |-> thrustEndFlag],
     ret |-> Pending] :
      a \in 1..Min(MaxStabilityAngles, Len(StabilityAngles)), updated \in BOOLEAN,
      angleChangePerDt2 \in { 0, 20000, -60000 },
      totalAngleChange \in { 0, 8000, -11459, 34377 },
      isParachuteEjected \in BOOLEAN, thrustEndFlag \in BOOLEAN }

\* lines 1548-1561, 1857-1875 and 1939-1956 of RocketPhysics.jsx: the check
\* of the absolute angle, the check of the coarse update from ignition on
\* and the check of the window, which is made in the coast only
StabilityChecks_v1(a) ==
  LET absoluteOmegaDegrees == JsMod(RadiansToMilliDegrees(a.adjustedOmega), 360000)
      normalizedAbsoluteAngle == IF absoluteOmegaDegrees > 180000
                                 THEN absoluteOmegaDegrees - 360000
                                 ELSE absoluteOmegaDegrees
      angleChangePerDt2Degrees == RadiansToMilliDegrees(a.angleChangePerDt2)
  IN [isAbsoluteAngleOK |-> ~(Abs(normalizedAbsoluteAngle) > MAX_ABSOLUTE_ANGLE),
      isAngleStableOK |->
        /\ ~(/\ a.updated /\ ~a.isParachuteEjected
             /\ Abs(angleChangePerDt2Degrees) > MAX_ANGLE_CHANGE_PER_DT2)
        /\ ~(/\ ~a.isParachuteEjected /\ a.thrustEndFlag
             /\ Abs(a.totalAngleChange) > 10000)]

CallStabilityChecks_v1 ==
  /\ UNCHANGED flightVars
  /\ call.fn = "stabilityChecks"
  /\ call.ret = Pending
  /\ call' = [call EXCEPT !.ret = StabilityChecks_v1(call.arg)]

InitAttitude == Init \/ (FlightIdle /\ call \in AngleUpdateCalls \cup StabilityCalls)

CallAngleUpdate_v1 ==
  /\ UNCHANGED flightVars
  /\ call.fn = "angleUpdate"
  /\ call.ret = Pending
  /\ call' = [call EXCEPT !.ret = AngleUpdate_v1(call.arg)]

NextAttitude == Step \/ Finish \/ CallAngleUpdate_v1 \/ CallStabilityChecks_v1

SpecAttitude == InitAttitude /\ [][NextAttitude]_vars

(***************************************************************************)
(* Properties of the coarse attitude update, under SpecAttitude            *)
(***************************************************************************)
\* alpha = M / I of the torque summed since the previous update: a sum that
\* is not finite counts as 0, one within MIN_TORQUE of 0 as MIN_TORQUE
AccelerationOfSum(sum, momentOfInertia) ==
  LET safe == IF XIsFinite(sum) THEN sum.v ELSE 0
      effective == IF safe # 0 /\ Abs(safe) < 1000 THEN Sign(safe) * 1000 ELSE safe
  IN SMulDiv(effective, 1000000, momentOfInertia)

\* what one pass over the lines of the update may do to the variables b
\* (before) and a (after), torque being the torque of the step
CoarseUpdate(b, a, torque, momentOfInertia) ==
  IF b.stepCounter + 1 >= ANGLE_STEPS_PER_UPDATE
  THEN /\ a.stepCounter = 0
       /\ a.totalTorque = XFin(0)
       /\ a.angularAcceleration = AccelerationOfSum(XAdd(b.totalTorque, torque), momentOfInertia)
  ELSE /\ a.stepCounter = b.stepCounter + 1
       /\ a.totalTorque = XAdd(b.totalTorque, torque)
       /\ a.angularAcceleration = b.angularAcceleration
       /\ a.angularVelocity = b.angularVelocity
       /\ a.angleChangePerDt2 = b.angleChangePerDt2

\* C19: angular acceleration, angular velocity and angleChangePerDt2 change
\* only in a step in which the step counter reaches ANGLE_STEPS_PER_UPDATE;
\* the update takes its angular acceleration from the torque summed over the
\* steps since the previous update, and leaves the step counter and the
\* accumulated torque 0
C19_CoarseUpdateUsesSummedTorque ==
  [][/\ (pc = "loop" /\ pc' = "loop" /\ Len(data') = Len(data) + 1) =>
          CoarseUpdate(st, st', data'[Len(data')].torque, env.momentOfInertia)
     /\ (call.fn = "angleUpdate" /\ call'.ret # call.ret) =>
          CoarseUpdate(call.arg, call'.ret, call.arg.torque, call.arg.momentOfInertia)]_vars

(***************************************************************************)
(* Properties of the aerodynamic moments, under Spec                       *)
(***************************************************************************)
\* speed, attitude angle and moments of the step about to be taken, as the
\* loop computes them from the state the step before left
StepVelocity == Hypot(st.vx, st.vy)

StepAdjustedOmega ==
  st.omega + (IF IsSpecialAngle(inp.angle) THEN 1000 * (IF inp.angle < 0 THEN -1 ELSE 1) ELSE 0)

StepMoments ==
  Moments(inp.rocketParams, env, StepVelocity, StepAdjustedOmega, Atan2(st.vx, st.vy),
          calculateWindSpeedAtHeight(inp.windSpeed, HeightOf(st.y), inp.windProfile))

\* the step is one of powered free flight with speed > 1 m/s or of coast with
\* speed > 0.5 m/s, without parachute
MomentPhase ==
  /\ pc = "loop"
  /\ ~ParachuteUpdate(st, env).isParachuteActive
  /\ ~ParachuteUpdate(st, env).isParachuteEjected
  /\ IF TimeLess(st.time, env.thrustEndTime)
     THEN ~OnLaunchRail /\ StepVelocity > 1000
     ELSE StepVelocity > 500

\* the sum of the four moments, floored, clamped and amplified
TorqueOfMoments(m, angle) ==
  LET torque == LimitTorque(XAdd(XAdd(XAdd(m.ML, m.MD), m.MW), m.MF))
  IN IF IsSpecialAngle(angle) THEN XScale(torque, 12, 10) ELSE torque

\* C20: in a step of powered free flight with speed > 1 m/s or of coast with
\* speed > 0.5 m/s each of the four moments is finite and the torque of the
\* step is their floored and clamped sum, times 1.2 at launch angles of
\* +-4 or +-18 degrees
C20_MomentsFiniteAndSummed ==
  [][(MomentPhase /\ Len(data') = Len(data) + 1) =>
       /\ XIsFinite(StepMoments.ML) /\ XIsFinite(StepMoments.MD)
       /\ XIsFinite(StepMoments.MW) /\ XIsFinite(StepMoments.MF)
       /\ data'[Len(data')].torque = TorqueOfMoments(StepMoments, inp.angle)]_vars

(***************************************************************************)
(* Calls of the moment functions on arguments from small sets              *)
(***************************************************************************)
\* thrust in 10^-5 N
calculateThrustMoment(thrust, centerOfGravity, omega, flightAngle, rocketParams) ==
  LET angleOfAttack == XSub(omega, flightAngle)
      thrustPosition == XFin((rocketParams.noseHeight + rocketParams.bodyHeight) * 1000)
      arm == XSub(thrustPosition, centerOfGravity)
      momentMagnitude ==
        XKeepPositive(
          XAbs(XMul(XMul(XMul(thrust, XSin(angleOfAttack), 10000),
                         XCos(angleOfAttack), 10000), arm, 1000)),
          XNonZero(thrust) /\ XNonZero(XSin(angleOfAttack)) /\ XNonZero(XCos(angleOfAttack))
            /\ XNonZero(arm))
      finalMoment ==
        IF \/ (XGe(thrustPosition, centerOfGravity) /\ XLt(angleOfAttack, XFin(0)))
           \/ (XLt(thrustPosition, centerOfGravity) /\ XGe(angleOfAttack, XFin(0)))
        THEN momentMagnitude ELSE XNeg(momentMagnitude)
  IN MinMomentGuard(finalMoment)

MaxMomentAngles == 3

\* attitude angles in 10^-5 rad, the flight-path angle being 0
MomentAngles == << -20000, 0, 20000, 60000 >>

\* application points and centers of gravity in mm from the nose tip
MomentPoints == { 200, 250, 300 }

\* the calls to make.  arg.point is the application point the function is
\* given (aerodynamicCenter, centerOfPressure, finCp; the thrust moment takes
\* its point from rocketParams), arg.driving the quantity whose sign the
\* function tests
MomentCalls ==
  { [fn |-> f,
     arg |-> [velocity |-> XFin(velocity), omega |-> XFin(MomentAngles[a]),
              flightAngle |-> XFin(0), windSpeed |-> XFin(windSpeed), thrust |-> XFin(thrust),
              point |-> XFin(point * 1000), centerOfGravity |-> XFin(centerOfGravity * 1000),
              rocketParams |-> RocketPreset],
     ret |-> Pending] :
      f \in { "calculateLiftMoment", "calculateDragMoment", "calculateWindMoment",
              "calculateFinMoment", "calculateThrustMoment" },
      velocity \in { 0, 100, 20000 }, a \in 1..Min(MaxMomentAngles, Len(MomentAngles)),
      windSpeed \in { -3000, 0, 3000 }, thrust \in { 0, 1000000 },
      point \in MomentPoints, centerOfGravity \in { 250 } }

InitMoments == FlightIdle /\ call \in MomentCalls

CallLiftMoment ==
  /\ UNCHANGED flightVars
  /\ call.fn = "calculateLiftMoment"
  /\ call.ret = Pending
  /\ call' = [call EXCEPT !.ret =
       calculateLiftMoment(call.arg.velocity, call.arg.omega, call.arg.flightAngle,
                           call.arg.rocketParams,
                           calculateProjectedArea(call.arg.rocketParams).sideArea,
                           call.arg.point, call.arg.centerOfGravity)]

CallDragMoment ==
  /\ UNCHANGED flightVars
  /\ call.fn = "calculateDragMoment"
  /\ call.ret = Pending
  /\ call' = [call EXCEPT !.ret =
       calculateDragMoment(call.arg.velocity, call.arg.omega, call.arg.flightAngle,
                           call.arg.rocketParams, XFin(call.arg.rocketParams.bodyWidth * 1000),
                           call.arg.point, call.arg.centerOfGravity)]

CallWindMoment ==
  /\ UNCHANGED flightVars
  /\ call.fn = "calculateWindMoment"
  /\ call.ret = Pending
  /\ call' = [call EXCEPT !.ret =
       calculateWindMoment(XFin(call.arg.rocketParams.noseHeight * 1000),
                           XFin(call.arg.rocketParams.bodyWidth * 1000),
                           XFin(call.arg.rocketParams.bodyHeight * 1000),
                           call.arg.windSpeed, call.arg.omega,
                           calculateProjectedArea(call.arg.rocketParams).totalFinArea,
                           call.arg.point, call.arg.point, call.arg.centerOfGravity)]

CallFinMoment ==
  /\ UNCHANGED flightVars
  /\ call.fn = "calculateFinMoment"
  /\ call.ret = Pending
  /\ call' = [call EXCEPT !.ret =
       calculateFinMoment(XFin(call.arg.rocketParams.finHeight),
                          XFin(call.arg.rocketParams.finBaseWidth),
                          call.arg.rocketParams.finCount, call.arg.velocity,
                          call.arg.omega, call.arg.flightAngle, call.arg.rocketParams,
                          call.arg.point, call.arg.centerOfGravity)]

CallThrustMoment ==
  /\ UNCHANGED flightVars
  /\ call.fn = "calculateThrustMoment"
  /\ call.ret = Pending
  /\ call' = [call EXCEPT !.ret =
       calculateThrustMoment(call.arg.thrust, call.arg.centerOfGravity, call.arg.omega,
                             call.arg.flightAngle, call.arg.rocketParams)]

NextMoments ==
  CallLiftMoment \/ CallDragMoment \/ CallWindMoment \/ CallFinMoment \/ CallThrustMoment

SpecMoments == InitMoments /\ [][NextMoments]_vars

(***************************************************************************)
(* Properties of the moment functions, under SpecMoments                   *)
(***************************************************************************)
\* a moment function has returned
MomentReturned ==
  call.fn \in { "calculateLiftMoment", "calculateDragMoment", "calculateWindMoment",
                "calculateFinMoment", "calculateThrustMoment" } /\ call.ret # Pending

\* the application point and the driving quantity of the call
ApplicationPoint ==
  IF call.fn = "calculateThrustMoment"
  THEN (call.arg.rocketParams.noseHeight + call.arg.rocketParams.bodyHeight) * 1000
  ELSE call.arg.point.v

DrivingAngle ==
  IF call.fn = "calculateWindMoment" THEN call.arg.windSpeed.v
  ELSE call.arg.omega.v - call.arg.flightAngle.v

\* the sign the convention gives the moment
ConventionNegative ==
  \/ (ApplicationPoint >= call.arg.centerOfGravity.v /\ DrivingAngle < 0)
  \/ (ApplicationPoint < call.arg.centerOfGravity.v /\ DrivingAngle >= 0)

\* C21: every moment function (lift, drag, wind, fin, thrust) returns a
\* moment that is negative when (application point >= CG and driving angle
\* < 0) or (application point < CG and driving angle >= 0), and positive
\* otherwise; a moment of magnitude 0 has no sign and is left aside here
C21_OneSignConvention ==
  (MomentReturned /\ call.ret # XFin(0)) =>
     /\ XIsFinite(call.ret)
     /\ IF ConventionNegative THEN call.ret.v < 0 ELSE call.ret.v > 0

FloorApplied == MomentReturned /\ Abs(call.ret.v) = MIN_MOMENT

StabilityChecked == call.fn = "stabilityChecks" /\ call.ret # Pending

\* the attitude angle in millidegrees, within (-180, 180]
AbsoluteAngle(omega) ==
  LET d == JsMod(RadiansToMilliDegrees(omega), 360000)
  IN IF d > 180000 THEN d - 360000 ELSE IF d <= -180000 THEN d + 360000 ELSE d

\* C23: in the variant whose check starts at ignition, a step before the
\* parachute ejection whose angle changes per response interval (that of
\* the coarse update and that of the window) are within +-45 degrees leaves
\* isAngleStableOK true, and isAbsoluteAngleOK is false exactly when the
\* attitude angle exceeds 112.5 degrees in magnitude
C23_StableWithin45Degrees ==
  StabilityChecked =>
    /\ (/\ Abs(RadiansToMilliDegrees(call.arg.angleChangePerDt2)) <= MAX_ANGLE_CHANGE_PER_DT2
        /\ Abs(call.arg.totalAngleChange) <= MAX_ANGLE_CHANGE_PER_DT2)
         => call.ret.isAngleStableOK
    /\ call.ret.isAbsoluteAngleOK = ~(Abs(AbsoluteAngle(call.arg.adjustedOmega)) > MAX_ABSOLUTE_ANGLE)

(***************************************************************************)
(* Runs of calculateFlightPath with inclined launches in wind, for the      *)
(* enhanced attitude control                                               *)
(***************************************************************************)
MaxControlAngles == 2

MaxControlWinds == 2

\* launch angles in degrees and wind speeds in mm/s
ControlAngles == << 30, -30, 4 >>

ControlWinds == << -3000, 3000, 0 >>

\* the config argument with both options enabled
ConfigBothOn == << [enhancedAttitudeControl |-> <<TRUE>>, windAngleLimitation |-> <<TRUE>>] >>

ControlInputs ==
  { [rocketParams |-> RocketPreset, angle |-> ControlAngles[a], windSpeed |-> ControlWinds[w],
     windProfile |-> "open", config |-> config] :
      a \in 1..Min(MaxControlAngles, Len(ControlAngles)),
      w \in 1..Min(MaxControlWinds, Len(ControlWinds)),
      config \in { NoConfig, ConfigEnhancedOff, ConfigBothOn } }
  \cup
  \* a rocket too heavy for its motor, launched against the wind
  { [rocketParams |-> [RocketPreset EXCEPT !.weight = 400, !.selectedMotor = <<"A8", 3>>],
     angle |-> -45, windSpeed |-> 3000, windProfile |-> "open", config |-> ConfigBothOn] }

\* velocities (vx, vy) in mm/s
ControlVelocities == { <<5000, 20000>>, <<-5000, 20000>>, <<20000, -20000>>, <<-1000, -30000>> }

\* the blend as a block on the values a step hands it: omega in 10^-5 rad,
\* the velocity, the effective wind in mm/s and the phase
BlendCalls ==
  { [fn |-> "enhancedControl",
     arg |-> [omega |-> omega, vx |-> v[1], vy |-> v[2],
              effectiveWindSpeed |-> effectiveWindSpeed, thrustEndFlag |-> thrustEndFlag,
              useWindAngleLimitation |-> useWindAngleLimitation],
     ret |-> Pending] :
      omega \in { 0, 52360, 250000, -300000 }, v \in ControlVelocities,
      effectiveWindSpeed \in { -6000, -300, 3000 }, thrustEndFlag \in BOOLEAN,
      useWindAngleLimitation \in BOOLEAN }

\* lines 1427-1521 on the values of call.arg: the target and the new omega
CallEnhancedControl ==
  /\ UNCHANGED flightVars
  /\ call.fn = "enhancedControl"
  /\ call.ret = Pending
  /\ call' = [call EXCEPT !.ret =
       [targetOmega |-> TargetOmega(Atan2(call.arg.vx, call.arg.vy), call.arg.vx,
                                    call.arg.effectiveWindSpeed, call.arg.thrustEndFlag,
                                    call.arg.useWindAngleLimitation),
        omega |-> EnhancedControl(call.arg.omega, call.arg.vx, call.arg.vy,
                                  Hypot(call.arg.vx, call.arg.vy),
                                  call.arg.effectiveWindSpeed, call.arg.thrustEndFlag,
                                  call.arg.useWindAngleLimitation)]]

InitControl ==
  \/ /\ inp \in ControlInputs
     /\ env = FlightConstants(inp.rocketParams, inp.config)
     /\ st = InitialState(inp.angle)
     /\ data = <<>>
     /\ pc = "loop"
     /\ call = NoCall
  \/ (FlightIdle /\ call \in BlendCalls)

NextControl == Step \/ Finish \/ CallEnhancedControl

SpecControl == InitControl /\ [][NextControl]_vars

(***************************************************************************)
(* Properties of the enhanced attitude control, under SpecControl          *)
(***************************************************************************)
\* what the blend of the last step added to omega: prevOmega is the omega
\* the blend started from
BlendChange == st.omega - st.prevOmega

StepWind == calculateWindSpeedAtHeight(inp.windSpeed, HeightOf(st.y), inp.windProfile)

\* moving against a wind of 0.5 m/s or more
Upwind(vx, effectiveWindSpeed) ==
  /\ Abs(effectiveWindSpeed) >= 500
  /\ (effectiveWindSpeed < 0 /\ vx > 0) \/ (effectiveWindSpeed > 0 /\ vx < 0)

\* pi / 2 in 10^-5 rad, rounded up
HalfPi == PI \div 2 + 1

\* C25: with the enhanced attitude control and the wind-angle limitation
\* enabled, in every powered step in which the rocket moves upwind in a wind
\* of 0.5 m/s or more, the target of the blend lies in [-pi/2, +pi/2]
C25_UpwindTargetWithinQuarterTurn ==
  [][/\ (/\ pc = "loop" /\ Len(data') = Len(data) + 1
         /\ env.useEnhancedAttitudeControl /\ env.useWindAngleLimitation
         /\ ~OnLaunchRail /\ ~st'.isParachuteEjected /\ ~st'.thrustEndFlag
         /\ Upwind(st.vx, StepWind)) =>
          Abs(TargetOmega(Atan2(st.vx, st.vy), st.vx, StepWind, FALSE, TRUE)) <= HalfPi
     /\ (/\ call.fn = "enhancedControl" /\ call'.ret # call.ret
         /\ call.arg.useWindAngleLimitation /\ ~call.arg.thrustEndFlag
         /\ Upwind(call.arg.vx, call.arg.effectiveWindSpeed)) =>
          Abs(call'.ret.targetOmega) <= HalfPi]_vars

(***************************************************************************)
(* The aggregates of a run against its samples                              *)
(***************************************************************************)
\* the largest member of a non-empty set of integers
Largest(S) == CHOOSE m \in S : \A n \in S : n <= m

SampleHeights == { data[j].height : j \in 1..Len(data) }

SampleSpeeds == { data[j].speedMagnitude : j \in 1..Len(data) }

SampleDistances == { data[j].horizontalDistance : j \in 1..Len(data) }

\* the first sample whose height is h
FirstAtHeight(h) ==
  data[CHOOSE j \in 1..Len(data) :
         /\ data[j].height = h
         /\ \A k \in 1..(j - 1) : data[k].height # h]

HeightAggregatesAgree ==
  /\ st.maxHeight = Largest(SampleHeights \cup { 0 })
  /\ st.maxHeight > 0 =>
       /\ st.keyPoints.maxHeight.time = FirstAtHeight(st.maxHeight).time
       /\ st.keyPoints.maxHeight.height = st.maxHeight

\* C26: when the loop is left, maxHeight is the largest height of the samples
\* or 0 if none is positive, maxSpeed is the largest speedMagnitude of the
\* samples, maxDistance the largest horizontalDistance, and keyPoints.maxHeight
\* holds the time and height of the first sample at maxHeight
C26_AggregatesAgreeWithSamples ==
  pc = "done" =>
    /\ HeightAggregatesAgree
    /\ st.maxSpeed = Largest(SampleSpeeds)
    /\ st.maxDistance = Largest(SampleDistances)

\* runs for the aggregates: the preset rocket and one of 10 g, which passes
\* 100 m/s under the C6 motor, launched at 30 and at 80 degrees
AggregateInputs ==
  { [rocketParams |-> [RocketPreset EXCEPT !.weight = weight],
     angle |-> angle, windSpeed |-> 0, windProfile |-> "uniform", config |-> NoConfig] :
      weight \in { 10, 200 }, angle \in { 30, 80 } }

InitAggregates ==
  /\ inp \in AggregateInputs
  /\ env = FlightConstants(inp.rocketParams, inp.config)
  /\ st = InitialState(inp.angle)
  /\ data = <<>>
  /\ pc = "loop"
  /\ call = NoCall

SpecAggregates == InitAggregates /\ [][Next]_vars

\* the parts of C26 on maxHeight, keyPoints.maxHeight and maxDistance
C26_HeightAndDistanceAgree ==
  pc = "done" =>
    /\ HeightAggregatesAgree
    /\ st.maxDistance = Largest(SampleDistances)

(***************************************************************************)
(* The parachute fields of the samples, under Spec                          *)
(***************************************************************************)
\* C27: in every sample isParachuteActive implies isParachuteEjected, the
\* deployment progress lies in [0, 1], is 0 before the ejection and 1 once
\* the parachute is active, and never decreases from a sample to the next
C27_ParachuteFlagsOrdered ==
  \A j \in 1..Len(data) :
    /\ data[j].isParachuteActive => data[j].isParachuteEjected
    /\ data[j].parachuteDeploymentProgress \in 0..1000
    /\ ~data[j].isParachuteEjected => data[j].parachuteDeploymentProgress = 0
    /\ data[j].isParachuteActive => data[j].parachuteDeploymentProgress = 1000
    /\ j > 1 => data[j - 1].parachuteDeploymentProgress <= data[j].parachuteDeploymentProgress

\* a run has samples before the ejection, during the deployment and after it
C27_Witness ==
  /\ \E j \in 1..Len(data) : ~data[j].isParachuteEjected
  /\ \E j \in 1..Len(data) :
       /\ data[j].isParachuteEjected /\ ~data[j].isParachuteActive
       /\ data[j].parachuteDeploymentProgress \in 1..999
  /\ \E j \in 1..Len(data) : data[j].isParachuteActive

(***************************************************************************)
(* The launch rail over a run, under Spec                                   *)
(***************************************************************************)
\* C28: once a step has found the rocket off the launch rail, no later step
\* of the run finds it on the rail: a step taken off the rail leaves the
\* rocket, if the loop goes on, where the next step is off the rail too
C28_RailOnlyAtLaunch ==
  [][(/\ pc = "loop" /\ ~OnLaunchRail
      /\ Len(data') = Len(data) + 1
      /\ LoopCondition(st')) =>
        DistanceFromStart(st', inp, env) >= env.launchRailLength]_vars

(***************************************************************************)
(* The end of the thrust over a run, under Spec                             *)
(***************************************************************************)
\* the step about to be taken is the first with time >= thrustEndTime
FirstStepAfterBurn ==
  /\ ~TimeLess(st.time, env.thrustEndTime)
  /\ data # <<>> => TimeLess(data[Len(data)].time, env.thrustEndTime)

\* the first step with time >= thrustEndTime sets thrustEndFlag and records
\* keyPoints.thrustEnd, and no other step writes keyPoints.thrustEnd
ThrustEndRecordedOnce ==
  /\ FirstStepAfterBurn =>
       /\ st'.thrustEndFlag
       /\ st'.keyPoints.thrustEnd.time = st.time
       /\ st'.keyPoints.thrustEnd.height = st.y
  /\ ~FirstStepAfterBurn => st'.keyPoints.thrustEnd = st.keyPoints.thrustEnd

\* C29: for every ejection delay, 0 included, the first step whose time is at
\* least the burn duration sets the thrust-end flag and records
\* keyPoints.thrustEnd, which is recorded at most once in a run
C29_ThrustEndAtFirstCoastStep ==
  [][(pc = "loop" /\ Len(data') = Len(data) + 1) => ThrustEndRecordedOnce]_vars

\* the same for the motors with an ejection delay above 0
C29_ThrustEndWithDelay ==
  [][(pc = "loop" /\ Len(data') = Len(data) + 1 /\ inp.rocketParams.selectedMotor[2] > 0) =>
       ThrustEndRecordedOnce]_vars

(***************************************************************************)
(* The vertical launch in still air, under Spec                             *)
(***************************************************************************)
\* the run is a launch at angle 0 with wind speed 0
VerticalStillAir == inp.angle = 0 /\ inp.windSpeed = 0

\* C30: in a run with zero wind and zero launch angle every sample has
\* omega = 0, torque = 0 and x = 0, and maxDistance is 0, with the enhanced
\* attitude control enabled or disabled
C30_VerticalRunSymmetric ==
  VerticalStillAir =>
    /\ \A j \in 1..Len(data) :
         /\ data[j].omega = 0
         /\ data[j].torque = XFin(0)
         /\ data[j].physicsX = 0
    /\ st.maxDistance = 0

\* the part of C30 on the steps under thrust: up to the end of the thrust
\* the samples of such a run have omega = 0, torque = 0 and x = 0
C30_SymmetricUnderThrust ==
  VerticalStillAir =>
    \A j \in 1..Len(data) :
      TimeLess(data[j].time, env.thrustEndTime) =>
        /\ data[j].omega = 0
        /\ data[j].torque = XFin(0)
        /\ data[j].physicsX = 0

====
